---- MODULE Spec2Model ----
(***************************************************************************)
(* Model of the ticket BI dashboard: the Dataset/Ticket store, the upload  *)
(* endpoint (src/app/api/datasets/upload/route.ts), the aggregation layer  *)
(* (src/unnamed/part_009, the lib/prisma module) and the chat action with  *)
(* its intent router (src/app/(preview)/actions.tsx).                      *)
(*                                                                         *)
(* Numbers: resolutionTime is kept in tenths of a day (0.5 days = 5).      *)
(* A computed "number" of the JavaScript code is a record                  *)
(*   [kind |-> "fin", num, den]   the rational num/den (den > 0)            *)
(*   [kind |-> "NaN" | "Inf" | "-Inf", num |-> 0, den |-> 1]                *)
(* so that 0/0 and Math.max() of nothing are what they are in JavaScript.  *)
(***************************************************************************)
EXTENDS Integers, Sequences, FiniteSets, TLC

VARIABLES
  datasets,   \* table "datasets": sequence of dataset ids in createdAt order
  tickets,    \* table "tickets": sequence of rows in insertion order
  upload,     \* the upload request in flight (POST handler between its awaits)
  out,        \* outcome of the last completed request / library call
  msg,        \* intent-router check: the message under classification
  intent,     \* intent-router check: the value detectIntent returned
  report,     \* the generateReport call in flight (between its awaits)
  chat        \* one chat session: its AI state and the sendMessage calls on it

vars == <<datasets, tickets, upload, out, msg, intent, report, chat>>

----------------------------------------------------------------------------
(* Bounds *)

MaxUploads == 2      \* upload requests that reach dataset.create
MaxRows    == 2      \* data rows in an uploaded file
MaxWords   == 3      \* words in a chat message (intent-router check)
MaxScenarioRows == 4 \* data rows in the file of an end-to-end scenario
MaxMetrics == 2      \* metrics requested from generateReport
MaxCalls   == 3      \* sendMessage calls on one chat session

----------------------------------------------------------------------------
(* Generic helpers *)

RECURSIVE SumSeq(_)
SumSeq(s) == IF s = <<>> THEN 0 ELSE Head(s) + SumSeq(Tail(s))

RECURSIVE SeqsUpTo(_, _)
SeqsUpTo(S, n) ==
  IF n = 0 THEN {<<>>}
  ELSE LET shorter == SeqsUpTo(S, n - 1)
       IN  shorter \cup {Append(s, x) : s \in {t \in shorter : Len(t) = n - 1}, x \in S}

Range(s) == {s[i] : i \in 1..Len(s)}

\* all orderings of a finite set, as sequences without repetition
Orderings(S) ==
  {s \in [1..Cardinality(S) -> S] : \A i, j \in 1..Cardinality(S) : i # j => s[i] # s[j]}

----------------------------------------------------------------------------
(* JavaScript numbers *)

Fin(n, d) == [kind |-> "fin", num |-> n, den |-> d]
NaN       == [kind |-> "NaN", num |-> 0, den |-> 1]
PosInf    == [kind |-> "Inf", num |-> 0, den |-> 1]
NegInf    == [kind |-> "-Inf", num |-> 0, den |-> 1]

IsFinite(x) == x.kind = "fin"

\* a / b for integers a, b with b >= 0 (counts and sums of the model's sizes)
Div(a, b) ==
  IF b # 0 THEN Fin(a, b)
  ELSE IF a = 0 THEN NaN
  ELSE IF a > 0 THEN PosInf ELSE NegInf

\* x * k for a computed number x and a positive integer k
Times(x, k) == IF IsFinite(x) THEN Fin(x.num * k, x.den) ELSE x

\* equality and order of finite numbers by cross-multiplication
NumEq(x, y) == IsFinite(x) /\ IsFinite(y) /\ x.num * y.den = y.num * x.den
NumLeq(x, y) == IsFinite(x) /\ IsFinite(y) /\ x.num * y.den <= y.num * x.den

----------------------------------------------------------------------------
(* Uploaded files.  A raw row is what the CSV/XLSX parser hands to POST:    *)
(* one cell per column header.  Date cells are either of the form D/M/YYYY  *)
(* (fmt "dmy") or some other text, for which generic Date parsing either    *)
(* succeeds or does not.                                                   *)

DMY(d, m, y) == [fmt |-> "dmy", d |-> d, m |-> m, y |-> y, generic |-> FALSE]
BadDate      == [fmt |-> "text", d |-> 0, m |-> 0, y |-> 0, generic |-> FALSE]

\* two-digit numbers end at 99
MaxTwoDigits == 99

\* the date cells parseDate is applied to: every string that matches
\* /^(\d{1,2})\/(\d{1,2})\/(\d{4})$/ with a leap or a common year, and texts
\* that do not match it (one that generic Date parsing does not read as a
\* date, one that it reads as 2024-02-01)
DateCells ==
  {DMY(d, m, y) : d \in 0..MaxTwoDigits, m \in 0..MaxTwoDigits, y \in {2023, 2024}}
    \cup {BadDate, [fmt |-> "text", d |-> 1, m |-> 2, y |-> 2024, generic |-> TRUE]}

RawRow(id, date, agent, issue, cat, res, sat) ==
  [idTicket |-> id, date |-> date, agentId |-> agent, issueType |-> issue,
   requestCategory |-> cat, resolutionTime |-> res, satisfactionRate |-> sat]

\* the rows files are made of: two rows with the same ticket id and
\* different contents, a second ticket, a row without ticket id, and a row
\* whose date cannot be parsed, and a row whose date has the form D/M/YYYY
\* with a month and a day that do not exist
SampleRows ==
  { RawRow("T1", DMY(1, 2, 2024),   "G1", "A", "X", 5,  5),
    RawRow("T1", DMY(15, 3, 2024),  "G2", "B", "Y", 20, 1),
    RawRow("T2", DMY(1, 2, 2024),   "G2", "B", "X", 10, 3),
    RawRow("",   DMY(1, 2, 2024),   "G1", "A", "Y", 10, 4),
    RawRow("T3", BadDate,           "G1", "A", "X", 5,  2),
    RawRow("T4", DMY(45, 13, 2024), "G1", "A", "X", 5,  2) }

Files == SeqsUpTo(SampleRows, MaxRows)

\* Files of well-formed rows with pairwise different ticket ids (the i-th
\* row has id "T<i>"): resolution times of half a day, exactly one day and
\* two days, two issue types, two request categories, and a row whose
\* resolution time and satisfaction rate lie outside the documented ranges
ScenarioFiles ==
  LET ScenarioContents ==
        { [agent |-> "G1", issue |-> "A", cat |-> "X", res |-> 5,  sat |-> 5],
          [agent |-> "G2", issue |-> "A", cat |-> "Y", res |-> 10, sat |-> 5],
          [agent |-> "G2", issue |-> "B", cat |-> "X", res |-> 20, sat |-> 7],
          [agent |-> "G1", issue |-> "A", cat |-> "X", res |-> -5, sat |-> 5] }
  IN  { [i \in 1..Len(c) |->
           RawRow("T" \o ToString(i), DMY(1, 2, 2024), c[i].agent, c[i].issue, c[i].cat,
                  c[i].res, c[i].sat)] : c \in SeqsUpTo(ScenarioContents, MaxScenarioRows) }

----------------------------------------------------------------------------
(* Upload endpoint *)

\* an Invalid Date (a Date whose time value is NaN)
InvalidDate == [y |-> 0, m |-> 0, d |-> 0]

DaysInMonth(y, m) ==
  IF m = 2 THEN (IF (y % 4 = 0 /\ y % 100 # 0) \/ y % 400 = 0 THEN 29 ELSE 28)
  ELSE IF m \in {4, 6, 9, 11} THEN 30 ELSE 31

\* new Date(`${year}-${MM}-${DD}`) on Node: a month outside 01..12 or a day
\* outside 01..31 gives an Invalid Date; a day of 01..31 that the month does
\* not have carries over into the next month
NewDateFromISO(y, m, d) ==
  IF m \notin 1..12 \/ d \notin 1..31 THEN InvalidDate
  ELSE IF d <= DaysInMonth(y, m) THEN [y |-> y, m |-> m, d |-> d]
  ELSE [y |-> y, m |-> m + 1, d |-> d - DaysInMonth(y, m)]

\* parseDate: [threw, date]
parseDate(cell) ==
  IF cell.fmt = "dmy"
  THEN [threw |-> FALSE, date |-> NewDateFromISO(cell.y, cell.m, cell.d)]
  ELSE IF cell.generic
       THEN [threw |-> FALSE, date |-> [y |-> cell.y, m |-> cell.m, d |-> cell.d]]
       ELSE [threw |-> TRUE, date |-> InvalidDate]

\* MapRow tying the ticket to an id that is not the created dataset's
MapRow_WrongDataset(row, dsId) ==
  [ticketId |-> row.idTicket,
   date |-> parseDate(row.date).date,
   agentId |-> row.agentId,
   requestCategory |-> row.requestCategory,
   issueType |-> row.issueType,
   resolutionTime |-> row.resolutionTime,
   satisfactionRate |-> row.satisfactionRate,
   datasetId |-> dsId + 1]

\* the object built for one row by the .map callback of POST
MapRow(row, dsId) ==
  [ticketId |-> row.idTicket,
   date |-> parseDate(row.date).date,
   agentId |-> row.agentId,
   requestCategory |-> row.requestCategory,
   issueType |-> row.issueType,
   resolutionTime |-> row.resolutionTime,
   satisfactionRate |-> row.satisfactionRate,
   datasetId |-> dsId]

\* a filter that keeps every row
HasTicketId_KeepAll(row) == TRUE

\* .filter(row => row['ID Ticket'])
HasTicketId(row) == row.idTicket # ""

\* rawData.filter(...).map(...): [threw, tickets]
MapRows(rawData, dsId) ==
  LET kept == SelectSeq(rawData, HasTicketId)
  IN  IF \E i \in 1..Len(kept) : parseDate(kept[i].date).threw
      THEN [threw |-> TRUE, tickets |-> <<>>]
      ELSE [threw |-> FALSE, tickets |-> [i \in 1..Len(kept) |-> MapRow(kept[i], dsId)]]

SameKey(a, b) == a.ticketId = b.ticketId /\ a.datasetId = b.datasetId

\* createMany that replaces the stored rows by the new ones
createMany_Replace(table, rows) == rows

\* createMany without skipDuplicates and without the unique index
createMany_NoSkip(table, rows) == table \o rows

\* db.ticket.createMany({data, skipDuplicates: true}): INSERT ... ON CONFLICT
\* DO NOTHING on the unique index (ticket_id, dataset_id), row by row
RECURSIVE createMany(_, _)
createMany(table, rows) ==
  IF rows = <<>> THEN table
  ELSE IF \E i \in 1..Len(table) : SameKey(table[i], Head(rows))
       THEN createMany(table, Tail(rows))
       ELSE createMany(Append(table, Head(rows)), Tail(rows))

\* db.dataset.create: the new row's id (a fresh cuid, modelled as a counter)
NewDatasetId(ds) == Len(ds) + 1

Idle == [pc |-> "idle", ds |-> 0, file |-> <<>>]

\* String.prototype.endsWith on strings as sequences of characters
EndsWith(s, suffix) ==
  /\ Len(s) >= Len(suffix)
  /\ SubSeq(s, Len(s) - Len(suffix) + 1, Len(s)) = suffix

\* the form field "file" is missing
NoFile == <<"">>

\* the names of the files sent to the endpoint
FileNames ==
  { <<"t", ".", "c", "s", "v">>, <<"t", ".", "x", "l", "s", "x">>, <<"t", ".", "x", "l", "s">>,
    <<"t", ".", "C", "S", "V">>, <<"t", ".", "t", "x", "t">>, <<"c", "s", "v">>,
    <<"t", ".", "c", "s", "v", ".", "p", "d", "f">> }

\* the branches of POST that parse the file (lines 47-54)
ParsedAsCsv(name)   == EndsWith(name, <<".", "c", "s", "v">>)
ParsedAsExcel(name) ==
  EndsWith(name, <<".", "x", "l", "s", "x">>) \/ EndsWith(name, <<".", "x", "l", "s">>)

\* UploadRejected answering only after db.dataset.create has run
UploadRejected_AfterCreate ==
  /\ upload.pc = "idle"
  /\ Len(datasets) < MaxUploads
  /\ \E name \in FileNames \cup {NoFile} :
       /\ name = NoFile \/ (~ParsedAsCsv(name) /\ ~ParsedAsExcel(name))
       /\ datasets' = Append(datasets, NewDatasetId(datasets))
       /\ out' = [op |-> "upload", status |-> 400,
                  message |-> IF name = NoFile THEN "No file provided"
                              ELSE "Unsupported file format",
                  ds |-> 0, ticketCount |-> 0, name |-> name]
  /\ UNCHANGED <<tickets, upload, msg, intent, report, chat>>

\* POST, lines 31-60: no file, or a file name with an unsupported extension
UploadRejected ==
  /\ upload.pc = "idle"
  /\ \E name \in FileNames \cup {NoFile} :
       /\ name = NoFile \/ (~ParsedAsCsv(name) /\ ~ParsedAsExcel(name))
       /\ out' = [op |-> "upload", status |-> 400,
                  message |-> IF name = NoFile THEN "No file provided"
                              ELSE "Unsupported file format",
                  ds |-> 0, ticketCount |-> 0, name |-> name]
  /\ UNCHANGED <<datasets, tickets, upload, msg, intent, report, chat>>

\* POST, lines 31-68: the file parses and db.dataset.create has run
UploadCreateDataset ==
  /\ upload.pc = "idle"
  /\ Len(datasets) < MaxUploads
  /\ \E name \in FileNames : ParsedAsCsv(name) \/ ParsedAsExcel(name)
  /\ \E file \in Files :
       /\ datasets' = Append(datasets, NewDatasetId(datasets))
       /\ upload' = [pc |-> "created", ds |-> NewDatasetId(datasets), file |-> file]
  /\ UNCHANGED <<tickets, out, msg, intent, report, chat>>

\* the same step of POST for the one file uploaded into an empty store
UploadScenarioFile ==
  /\ upload.pc = "idle"
  /\ datasets = <<>>
  /\ \E name \in FileNames : ParsedAsCsv(name) \/ ParsedAsExcel(name)
  /\ \E file \in ScenarioFiles :
       /\ datasets' = Append(datasets, NewDatasetId(datasets))
       /\ upload' = [pc |-> "created", ds |-> NewDatasetId(datasets), file |-> file]
  /\ UNCHANGED <<tickets, out, msg, intent, report, chat>>

\* db.ticket.createMany rejects the whole batch when a row's date is a Date
\* that is no point in time
InsertRejected(rows) == \E i \in 1..Len(rows) : rows[i].date = InvalidDate

\* POST, lines 70-115: map the rows, then either fail (catch: status 500) or
\* bulk-insert and answer
UploadInsert ==
  /\ upload.pc = "created"
  /\ LET mapped == MapRows(upload.file, upload.ds)
     IN  IF mapped.threw
         THEN /\ out' = [op |-> "upload", status |-> 500, message |-> "Failed to process row",
                         ds |-> upload.ds, ticketCount |-> 0,
                         rows |-> Len(upload.file)]
              /\ UNCHANGED tickets
         ELSE IF Len(mapped.tickets) = 0
         THEN /\ out' = [op |-> "upload", status |-> 500,
                         message |-> "No valid tickets found in the file",
                         ds |-> upload.ds, ticketCount |-> 0,
                         rows |-> Len(upload.file)]
              /\ UNCHANGED tickets
         ELSE IF InsertRejected(mapped.tickets)
         THEN \* status 500 with the message of the ORM's validation error
              /\ out' = [op |-> "upload", status |-> 500, message |-> "Invalid value for date",
                         ds |-> upload.ds, ticketCount |-> 0,
                         rows |-> Len(upload.file)]
              /\ UNCHANGED tickets
         ELSE /\ tickets' = createMany(tickets, mapped.tickets)
              /\ out' = [op |-> "upload", status |-> 200, message |-> "",
                         ds |-> upload.ds, ticketCount |-> Len(mapped.tickets),
                         rows |-> Len(upload.file)]
  /\ upload' = Idle
  /\ UNCHANGED <<datasets, msg, intent, report, chat>>

----------------------------------------------------------------------------
(* Query primitives of the ORM, over the rows of one dataset *)

\* where: { datasetId }
RowsOf(table, ds) == SelectSeq(table, LAMBDA t : t.datasetId = ds)

Null == [kind |-> "null", num |-> 0, den |-> 1]

\* JavaScript  x || 0  on a number or null
OrZero(x) == IF x.kind \in {"null", "NaN"} \/ (x.kind = "fin" /\ x.num = 0) THEN Fin(0, 1) ELSE x

SetMin(S) == CHOOSE x \in S : \A y \in S : x <= y
SetMax(S) == CHOOSE x \in S : \A y \in S : y <= x

\* aggregate _avg / _min / _max of an integer column: null over no rows
AggAvg(vals) == IF vals = <<>> THEN Null ELSE Fin(SumSeq(vals), Len(vals))
AggMin(vals) == IF vals = <<>> THEN Null ELSE Fin(SetMin(Range(vals)), 1)
AggMax(vals) == IF vals = <<>> THEN Null ELSE Fin(SetMax(Range(vals)), 1)

ResolutionTimes(rows) == [i \in 1..Len(rows) |-> rows[i].resolutionTime]
SatisfactionRates(rows) == [i \in 1..Len(rows) |-> rows[i].satisfactionRate]

\* groupBy({by: [column], _count: true}) over a column's values: one group
\* per distinct value; the order of the groups is not specified by the ORM,
\* so callers pass one
GroupsBy(vals) ==
  {[key |-> k, count |-> Cardinality({i \in 1..Len(vals) : vals[i] = k})] : k \in Range(vals)}

IssueGroups(rows)    == GroupsBy([i \in 1..Len(rows) |-> rows[i].issueType])
CategoryGroups(rows) == GroupsBy([i \in 1..Len(rows) |-> rows[i].requestCategory])
RatingGroups(rows)   == GroupsBy([i \in 1..Len(rows) |-> rows[i].satisfactionRate])

\* ascending sequence of a finite set of integers
RECURSIVE SortedInts(_)
SortedInts(S) == IF S = {} THEN <<>> ELSE <<SetMin(S)>> \o SortedInts(S \ {SetMin(S)})

\* [...xs].sort((a, b) => b.count - a.count): stable, descending by count
RECURSIVE InsertByCountDesc(_, _)
InsertByCountDesc(sorted, x) ==
  IF sorted = <<>> THEN <<x>>
  ELSE IF Head(sorted).count >= x.count
       THEN <<Head(sorted)>> \o InsertByCountDesc(Tail(sorted), x)
       ELSE <<x>> \o sorted

\* a descending sort that puts entries of equal count in reverse order
RECURSIVE SortByCountDesc_TiesReversed(_)
SortByCountDesc_TiesReversed(xs) ==
  IF xs = <<>> THEN <<>>
  ELSE InsertByCountDesc(SortByCountDesc_TiesReversed(Tail(xs)), Head(xs))

RECURSIVE SortByCountDesc(_)
SortByCountDesc(xs) ==
  IF xs = <<>> THEN <<>>
  ELSE InsertByCountDesc(SortByCountDesc(SubSeq(xs, 1, Len(xs) - 1)), xs[Len(xs)])

----------------------------------------------------------------------------
(* Aggregation layer (lib/prisma) *)

OneDay == 10        \* resolutionTime < 1, in tenths of a day

DateKey(d)  == d.y * 10000 + d.m * 100 + d.d      \* toISOString().slice(0, 10)
MonthKey(d) == d.y * 100 + d.m                    \* toISOString().slice(0, 7)

\* `${YYYY-MM}-W${weekNum}` with
\* weekNum = Math.ceil((getDate() + 6 - getDay()) / 7); getDay is the day of
\* the week of the calendar date (0 = Sunday)
WeekKey(d) ==
  LET t == <<0, 3, 2, 5, 0, 3, 5, 1, 4, 6, 2, 4>>
      y == IF d.m < 3 THEN d.y - 1 ELSE d.y
      getDay == (y + (y \div 4) - (y \div 100) + (y \div 400) + t[d.m] + d.d) % 7
      weekNum == (d.d + 6 - getDay + 6) \div 7
  IN  MonthKey(d) * 10 + weekNum

\* getResolutionTimeAnalytics aggregating the wrong column
getResolutionTimeAnalytics_WrongColumn(rows) ==
  LET times == SatisfactionRates(rows)
      dates == SortedInts({DateKey(rows[i].date) : i \in 1..Len(rows)})
      underDayCount == Len(SelectSeq(rows, LAMBDA t : t.resolutionTime < OneDay))
  IN  [avgResolutionTime  |-> OrZero(AggAvg(times)),
       fastestResolution  |-> OrZero(AggMin(times)),
       slowestResolution  |-> OrZero(AggMax(times)),
       percentageUnderDay |-> Times(Div(underDayCount, Len(rows)), 100),
       data |-> [i \in 1..Len(dates) |-> [date |-> dates[i], avgResolutionTime |-> NaN]]]

\* getResolutionTimeAnalytics counting a ticket of exactly one day as under a day
getResolutionTimeAnalytics_WithinDay(rows) ==
  LET times == ResolutionTimes(rows)
      dates == SortedInts({DateKey(rows[i].date) : i \in 1..Len(rows)})
      onDate(k) == SelectSeq(rows, LAMBDA t : DateKey(t.date) = k)
      underDayCount == Len(SelectSeq(rows, LAMBDA t : t.resolutionTime <= OneDay))
  IN  [avgResolutionTime  |-> OrZero(AggAvg(times)),
       fastestResolution  |-> OrZero(AggMin(times)),
       slowestResolution  |-> OrZero(AggMax(times)),
       percentageUnderDay |-> Times(Div(underDayCount, Len(rows)), 100),
       data |-> [i \in 1..Len(dates) |->
                   [date |-> dates[i],
                    avgResolutionTime |->
                      Div(SumSeq(ResolutionTimes(onDate(dates[i]))), Len(onDate(dates[i])))]]]

getResolutionTimeAnalytics(rows) ==
  LET times == ResolutionTimes(rows)
      dates == SortedInts({DateKey(rows[i].date) : i \in 1..Len(rows)})
      onDate(k) == SelectSeq(rows, LAMBDA t : DateKey(t.date) = k)
      underDayCount == Len(SelectSeq(rows, LAMBDA t : t.resolutionTime < OneDay))
  IN  [avgResolutionTime  |-> OrZero(AggAvg(times)),
       fastestResolution  |-> OrZero(AggMin(times)),
       slowestResolution  |-> OrZero(AggMax(times)),
       percentageUnderDay |-> Times(Div(underDayCount, Len(rows)), 100),
       data |-> [i \in 1..Len(dates) |->
                   [date |-> dates[i],
                    avgResolutionTime |->
                      Div(SumSeq(ResolutionTimes(onDate(dates[i]))), Len(onDate(dates[i])))]]]

\* the reduce over the entries of a distribution that satisfy a filter
RECURSIVE SumCounts(_)
SumCounts(dist) == IF dist = <<>> THEN 0 ELSE Head(dist).count + SumCounts(Tail(dist))

HighRating == 4     \* item.rating >= 4
LowRating  == 2     \* item.rating <= 2

getSatisfactionAnalytics(rows, ratingOrd) ==
  LET distribution == [i \in 1..Len(ratingOrd) |->
                         [rating |-> ratingOrd[i].key, count |-> ratingOrd[i].count]]
      totalTickets == SumCounts(distribution)
      highRatings == SumCounts(SelectSeq(distribution, LAMBDA item : item.rating >= HighRating))
      lowRatings  == SumCounts(SelectSeq(distribution, LAMBDA item : item.rating <= LowRating))
  IN  [avgRating |-> OrZero(AggAvg(SatisfactionRates(rows))),
       percentageHigh |-> Times(Div(highRatings, totalTickets), 100),
       percentageLow  |-> Times(Div(lowRatings, totalTickets), 100),
       ratingDistribution |-> distribution,
       data |-> distribution]

\* getIssueDistributionAnalytics returning only the top issue as distribution
getIssueDistributionAnalytics_TopOnly(rows, issueOrd, categoryOrd) ==
  LET issueDistribution == [i \in 1..Len(issueOrd) |->
                              [type |-> issueOrd[i].key, count |-> issueOrd[i].count]]
      categoryDistribution == [i \in 1..Len(categoryOrd) |->
                                 [name |-> categoryOrd[i].key, count |-> categoryOrd[i].count]]
      sortedIssues == SortByCountDesc(issueDistribution)
      topOnly == IF sortedIssues = <<>> THEN <<>> ELSE <<sortedIssues[1]>>
  IN  [issueDistribution |-> topOnly,
       topIssue |-> IF Len(sortedIssues) > 0 THEN sortedIssues[1]
                    ELSE [type |-> "None", count |-> 0],
       categories |-> SortByCountDesc(categoryDistribution),
       data |-> topOnly]

getIssueDistributionAnalytics(rows, issueOrd, categoryOrd) ==
  LET issueDistribution == [i \in 1..Len(issueOrd) |->
                              [type |-> issueOrd[i].key, count |-> issueOrd[i].count]]
      categoryDistribution == [i \in 1..Len(categoryOrd) |->
                                 [name |-> categoryOrd[i].key, count |-> categoryOrd[i].count]]
      sortedIssues == SortByCountDesc(issueDistribution)
  IN  [issueDistribution |-> issueDistribution,
       topIssue |-> IF Len(sortedIssues) > 0 THEN sortedIssues[1]
                    ELSE [type |-> "None", count |-> 0],
       categories |-> SortByCountDesc(categoryDistribution),
       data |-> issueDistribution]

PeriodKey(d, groupBy) ==
  CASE groupBy = "month" -> MonthKey(d)
    [] groupBy = "week"  -> WeekKey(d)
    [] groupBy = "day"   -> DateKey(d)
    [] OTHER             -> MonthKey(d)

getTicketTrendsAnalytics(rows, groupBy) ==
  LET keys == {PeriodKey(rows[i].date, groupBy) : i \in 1..Len(rows)}
      countOf(k) == Cardinality({i \in 1..Len(rows) : PeriodKey(rows[i].date, groupBy) = k})
      periods == SortedInts(keys)
      totalTickets == Len(rows)
  IN  [data |-> [i \in 1..Len(periods) |-> [period |-> periods[i], count |-> countOf(periods[i])]],
       totalTickets |-> totalTickets,
       avgTicketsPerPeriod |-> Div(totalTickets, Cardinality(keys)),
       maxTicketsInPeriod |-> IF keys = {} THEN NegInf
                              ELSE Fin(SetMax({countOf(k) : k \in keys}), 1),
       \* the numbers interpolated into the three insight sentences
       insights |-> <<Div(totalTickets, Cardinality(keys)),
                      IF keys = {} THEN NegInf ELSE Fin(SetMax({countOf(k) : k \in keys}), 1),
                      Fin(totalTickets, 1)>>]

BackendMetrics == {"resolution_time", "satisfaction", "issue_distribution", "ticket_count"}

NoOrders == [rating |-> <<>>, issue |-> <<>>, category |-> <<>>, agent |-> <<>>]

\* getTicketAnalytics(datasetId, metric, groupBy): [threw, metric, result]
getTicketAnalytics(table, datasetId, metric, groupBy, ord) ==
  LET rows == RowsOf(table, datasetId)
  IN  CASE metric = "resolution_time" ->
             [threw |-> FALSE, metric |-> metric, result |-> getResolutionTimeAnalytics(rows)]
        [] metric = "satisfaction" ->
             [threw |-> FALSE, metric |-> metric,
              result |-> getSatisfactionAnalytics(rows, ord.rating)]
        [] metric = "issue_distribution" ->
             [threw |-> FALSE, metric |-> metric,
              result |-> getIssueDistributionAnalytics(rows, ord.issue, ord.category)]
        [] metric = "ticket_count" ->
             [threw |-> FALSE, metric |-> metric,
              result |-> getTicketTrendsAnalytics(rows, IF groupBy = "" THEN "month" ELSE groupBy)]
        [] OTHER ->
             [threw |-> TRUE, metric |-> metric, result |-> [message |-> "Unsupported metric"]]

\* the group orders a call for this metric actually consumes
OrdersFor(rows, metric) ==
  CASE metric = "satisfaction" ->
         {[NoOrders EXCEPT !.rating = o] : o \in Orderings(RatingGroups(rows))}
    [] metric = "issue_distribution" ->
         {[NoOrders EXCEPT !.issue = o.issue, !.category = o.category] :
            o \in [issue : Orderings(IssueGroups(rows)),
                   category : Orderings(CategoryGroups(rows))]}
    [] OTHER -> {NoOrders}

\* absent, the three recognised values, and an unrecognised one
GroupBys == {"", "month", "week", "day", "quarter"}

\* Library calls and chat requests are issued when the last outcome is
\* that of an upload request (or there is none yet).  They read the tables
\* at one instant and write nothing, so a call issued right after another
\* one would be answered exactly as it is answered here.
NoOut == [op |-> "none"]

ReadyForCall == out.op \in {"none", "upload"}

\* a direct call of the exported getTicketAnalytics on any stored dataset
CallTicketAnalytics ==
  /\ ReadyForCall
  /\ \E ds \in Range(datasets), metric \in BackendMetrics \cup {"agent_performance"} :
       \E groupBy \in (IF metric = "ticket_count" THEN GroupBys ELSE {""}) :
         \E ord \in OrdersFor(RowsOf(tickets, ds), metric) :
           out' = [op |-> "analytics", ds |-> ds, groupBy |-> groupBy,
                   ret |-> getTicketAnalytics(tickets, ds, metric, groupBy, ord)]
  /\ UNCHANGED <<datasets, tickets, upload, msg, intent, report, chat>>

----------------------------------------------------------------------------
(* Strings.  A string is a sequence of one-character strings, so that     *)
(* String.prototype.includes and toLowerCase are computed, not assumed.    *)

LowerChar(c) ==
  LET UpperAlpha == <<"A", "B", "C", "D", "E", "F", "G", "H", "I", "J", "K", "L", "M", "N",
                     "O", "P", "Q", "R", "S", "T", "U", "V", "W", "X", "Y", "Z">>
      LowerAlpha == <<"a", "b", "c", "d", "e", "f", "g", "h", "i", "j", "k", "l", "m", "n",
                     "o", "p", "q", "r", "s", "t", "u", "v", "w", "x", "y", "z">>
  IN  IF \E k \in 1..Len(UpperAlpha) : UpperAlpha[k] = c
      THEN LowerAlpha[CHOOSE k \in 1..Len(UpperAlpha) : UpperAlpha[k] = c]
      ELSE c

\* String.prototype.toLowerCase
toLowerCase(s) == [i \in 1..Len(s) |-> LowerChar(s[i])]

\* String.prototype.includes
Includes(s, kw) ==
  \E i \in 0..(Len(s) - Len(kw)) : \A j \in 1..Len(kw) : s[i + j] = kw[j]

\* the keywords of detectIntent
Keyword ==
  [generate |-> <<"g", "e", "n", "e", "r", "a", "t", "e">>,
   create |-> <<"c", "r", "e", "a", "t", "e">>,
   report |-> <<"r", "e", "p", "o", "r", "t">>,
   summary |-> <<"s", "u", "m", "m", "a", "r", "y">>,
   monthly |-> <<"m", "o", "n", "t", "h", "l", "y">>,
   upload |-> <<"u", "p", "l", "o", "a", "d">>,
   list |-> <<"l", "i", "s", "t">>,
   dataset |-> <<"d", "a", "t", "a", "s", "e", "t">>,
   resolution_time |-> <<"r", "e", "s", "o", "l", "u", "t", "i", "o", "n", " ", "t", "i", "m", "e">>,
   agent_performance |-> <<"a", "g", "e", "n", "t", " ", "p", "e", "r", "f", "o", "r", "m", "a", "n", "c", "e">>,
   time |-> <<"t", "i", "m", "e">>,
   resolve |-> <<"r", "e", "s", "o", "l", "v", "e">>,
   tickets |-> <<"t", "i", "c", "k", "e", "t", "s">>,
   ticket |-> <<"t", "i", "c", "k", "e", "t">>,
   over_time |-> <<"o", "v", "e", "r", " ", "t", "i", "m", "e">>,
   trend |-> <<"t", "r", "e", "n", "d">>,
   volume |-> <<"v", "o", "l", "u", "m", "e">>,
   created |-> <<"c", "r", "e", "a", "t", "e", "d">>,
   satisfaction |-> <<"s", "a", "t", "i", "s", "f", "a", "c", "t", "i", "o", "n">>,
   rating |-> <<"r", "a", "t", "i", "n", "g">>,
   csat |-> <<"c", "s", "a", "t">>,
   happy |-> <<"h", "a", "p", "p", "y">>,
   break_down |-> <<"b", "r", "e", "a", "k", " ", "d", "o", "w", "n">>,
   breakdown |-> <<"b", "r", "e", "a", "k", "d", "o", "w", "n">>,
   distribution |-> <<"d", "i", "s", "t", "r", "i", "b", "u", "t", "i", "o", "n">>,
   issue |-> <<"i", "s", "s", "u", "e">>,
   type |-> <<"t", "y", "p", "e">>,
   category |-> <<"c", "a", "t", "e", "g", "o", "r", "y">>]

\* the keywords of analyzeDataByQuery that detectIntent does not test
QueryKeyword ==
  [compare |-> <<"c", "o", "m", "p", "a", "r", "e">>,
   performance |-> <<"p", "e", "r", "f", "o", "r", "m", "a", "n", "c", "e">>,
   status |-> <<"s", "t", "a", "t", "u", "s">>,
   resolved |-> <<"r", "e", "s", "o", "l", "v", "e", "d">>,
   agent |-> <<"a", "g", "e", "n", "t">>,
   resolution |-> <<"r", "e", "s", "o", "l", "u", "t", "i", "o", "n">>]

\* the words chat messages are made of (intent-router check)
Word ==
  [Generate |-> <<"G", "e", "n", "e", "r", "a", "t", "e">>,
   created |-> <<"c", "r", "e", "a", "t", "e", "d">>,
   report |-> <<"r", "e", "p", "o", "r", "t">>,
   Upload |-> <<"U", "p", "l", "o", "a", "d">>,
   list |-> <<"l", "i", "s", "t">>,
   datasets |-> <<"d", "a", "t", "a", "s", "e", "t", "s">>,
   resolution |-> <<"r", "e", "s", "o", "l", "u", "t", "i", "o", "n">>,
   time |-> <<"t", "i", "m", "e">>,
   tickets |-> <<"t", "i", "c", "k", "e", "t", "s">>,
   trend |-> <<"t", "r", "e", "n", "d">>,
   rating |-> <<"r", "a", "t", "i", "n", "g">>,
   distribution |-> <<"d", "i", "s", "t", "r", "i", "b", "u", "t", "i", "o", "n">>,
   type |-> <<"t", "y", "p", "e">>,
   Hello |-> <<"H", "e", "l", "l", "o">>,
   status |-> <<"s", "t", "a", "t", "u", "s">>,
   agent |-> <<"a", "g", "e", "n", "t">>,
   How |-> <<"H", "o", "w">>,
   long |-> <<"l", "o", "n", "g">>]

Vocabulary ==
  {Word.Generate, Word.created, Word.report, Word.Upload, Word.list, Word.datasets, Word.resolution,
   Word.time, Word.tickets, Word.trend, Word.rating, Word.distribution, Word.type, Word.Hello, Word.status, Word.agent,
   Word.How, Word.long}

\* words joined by single spaces
RECURSIVE JoinWords(_)
JoinWords(ws) ==
  IF ws = <<>> THEN <<>>
  ELSE IF Len(ws) = 1 THEN ws[1]
  ELSE ws[1] \o <<" ">> \o JoinWords(Tail(ws))

Messages == {JoinWords(ws) : ws \in SeqsUpTo(Vocabulary, MaxWords)}

----------------------------------------------------------------------------
(* Intent router (actions.tsx, detectIntent) *)

ReportMetrics == <<"resolution_time", "satisfaction", "issue_distribution", "ticket_trends">>

ReportRule(lm) ==
  /\ Includes(lm, Keyword.generate) \/ Includes(lm, Keyword.create)
  /\ Includes(lm, Keyword.report) \/ Includes(lm, Keyword.summary)

UploadRule(lm) == Includes(lm, Keyword.upload)

ListRule(lm) == Includes(lm, Keyword.list) /\ Includes(lm, Keyword.dataset)

AgentPerformanceRule(lm) ==
  \/ Includes(lm, Keyword.resolution_time)
  \/ Includes(lm, Keyword.agent_performance)
  \/ (Includes(lm, Keyword.time) /\ Includes(lm, Keyword.resolve))

TicketTrendsRule(lm) ==
  /\ Includes(lm, Keyword.tickets) \/ Includes(lm, Keyword.ticket)
  /\ \/ Includes(lm, Keyword.over_time)
     \/ Includes(lm, Keyword.trend)
     \/ Includes(lm, Keyword.volume)
     \/ Includes(lm, Keyword.monthly)
     \/ Includes(lm, Keyword.created)

SatisfactionRule(lm) ==
  \/ Includes(lm, Keyword.satisfaction)
  \/ Includes(lm, Keyword.rating)
  \/ Includes(lm, Keyword.csat)
  \/ Includes(lm, Keyword.happy)

IssueDistributionRule(lm) ==
  /\ \/ Includes(lm, Keyword.break_down)
     \/ Includes(lm, Keyword.breakdown)
     \/ Includes(lm, Keyword.distribution)
  /\ \/ Includes(lm, Keyword.issue)
     \/ Includes(lm, Keyword.type)
     \/ Includes(lm, Keyword.category)

IntentOf(name, metric, metrics, reportType, query) ==
  [intent |-> name, metric |-> metric, metrics |-> metrics,
   reportType |-> reportType, query |-> query]

ShowAnalytics(metric) == IntentOf("show_analytics", metric, <<>>, "", <<>>)

\* detectIntent with the list rule tested before the upload rule
detectIntent_ListFirst(message) ==
  LET lowerMessage == toLowerCase(message)
  IN  IF ReportRule(lowerMessage)
      THEN IntentOf("generate_report", "", ReportMetrics,
                    IF Includes(lowerMessage, Keyword.monthly) THEN "Monthly" ELSE "General", <<>>)
      ELSE IF ListRule(lowerMessage) THEN IntentOf("list_datasets", "", <<>>, "", <<>>)
      ELSE IF UploadRule(lowerMessage) THEN IntentOf("upload_dataset", "", <<>>, "", <<>>)
      ELSE IF AgentPerformanceRule(lowerMessage) THEN ShowAnalytics("agent_performance")
      ELSE IF TicketTrendsRule(lowerMessage) THEN ShowAnalytics("ticket_trends")
      ELSE IF SatisfactionRule(lowerMessage) THEN ShowAnalytics("satisfaction")
      ELSE IF IssueDistributionRule(lowerMessage) THEN ShowAnalytics("issue_distribution")
      ELSE IntentOf("analyze_data", "", <<>>, "", message)

\* detectIntent with the upload rule tested before the report rule
detectIntent_UploadFirst(message) ==
  LET lowerMessage == toLowerCase(message)
  IN  IF UploadRule(lowerMessage) THEN IntentOf("upload_dataset", "", <<>>, "", <<>>)
      ELSE IF ReportRule(lowerMessage)
      THEN IntentOf("generate_report", "", ReportMetrics,
                    IF Includes(lowerMessage, Keyword.monthly) THEN "Monthly" ELSE "General", <<>>)
      ELSE IF ListRule(lowerMessage) THEN IntentOf("list_datasets", "", <<>>, "", <<>>)
      ELSE IF AgentPerformanceRule(lowerMessage) THEN ShowAnalytics("agent_performance")
      ELSE IF TicketTrendsRule(lowerMessage) THEN ShowAnalytics("ticket_trends")
      ELSE IF SatisfactionRule(lowerMessage) THEN ShowAnalytics("satisfaction")
      ELSE IF IssueDistributionRule(lowerMessage) THEN ShowAnalytics("issue_distribution")
      ELSE IntentOf("analyze_data", "", <<>>, "", message)

\* detectIntent carrying the lowercased copy as the query
detectIntent_LowerQuery(message) ==
  LET lowerMessage == toLowerCase(message)
  IN  IF ReportRule(lowerMessage)
      THEN IntentOf("generate_report", "", ReportMetrics,
                    IF Includes(lowerMessage, Keyword.monthly) THEN "Monthly" ELSE "General", <<>>)
      ELSE IF UploadRule(lowerMessage) THEN IntentOf("upload_dataset", "", <<>>, "", <<>>)
      ELSE IF ListRule(lowerMessage) THEN IntentOf("list_datasets", "", <<>>, "", <<>>)
      ELSE IF AgentPerformanceRule(lowerMessage) THEN ShowAnalytics("agent_performance")
      ELSE IF TicketTrendsRule(lowerMessage) THEN ShowAnalytics("ticket_trends")
      ELSE IF SatisfactionRule(lowerMessage) THEN ShowAnalytics("satisfaction")
      ELSE IF IssueDistributionRule(lowerMessage) THEN ShowAnalytics("issue_distribution")
      ELSE IntentOf("analyze_data", "", <<>>, "", lowerMessage)

\* detectIntent answering with an intent of its own when no rule matches
detectIntent_ChatFallback(message) ==
  LET lowerMessage == toLowerCase(message)
  IN  IF ReportRule(lowerMessage)
      THEN IntentOf("generate_report", "", ReportMetrics,
                    IF Includes(lowerMessage, Keyword.monthly) THEN "Monthly" ELSE "General", <<>>)
      ELSE IF UploadRule(lowerMessage) THEN IntentOf("upload_dataset", "", <<>>, "", <<>>)
      ELSE IF ListRule(lowerMessage) THEN IntentOf("list_datasets", "", <<>>, "", <<>>)
      ELSE IF AgentPerformanceRule(lowerMessage) THEN ShowAnalytics("agent_performance")
      ELSE IF TicketTrendsRule(lowerMessage) THEN ShowAnalytics("ticket_trends")
      ELSE IF SatisfactionRule(lowerMessage) THEN ShowAnalytics("satisfaction")
      ELSE IF IssueDistributionRule(lowerMessage) THEN ShowAnalytics("issue_distribution")
      ELSE IntentOf("chat", "", <<>>, "", message)

detectIntent(message) ==
  LET lowerMessage == toLowerCase(message)
  IN  IF ReportRule(lowerMessage)
      THEN IntentOf("generate_report", "", ReportMetrics,
                    IF Includes(lowerMessage, Keyword.monthly) THEN "Monthly" ELSE "General", <<>>)
      ELSE IF UploadRule(lowerMessage) THEN IntentOf("upload_dataset", "", <<>>, "", <<>>)
      ELSE IF ListRule(lowerMessage) THEN IntentOf("list_datasets", "", <<>>, "", <<>>)
      ELSE IF AgentPerformanceRule(lowerMessage) THEN ShowAnalytics("agent_performance")
      ELSE IF TicketTrendsRule(lowerMessage) THEN ShowAnalytics("ticket_trends")
      ELSE IF SatisfactionRule(lowerMessage) THEN ShowAnalytics("satisfaction")
      ELSE IF IssueDistributionRule(lowerMessage) THEN ShowAnalytics("issue_distribution")
      ELSE IntentOf("analyze_data", "", <<>>, "", message)

NoIntent == [intent |-> "none"]

\* one evaluation of detectIntent on the message under classification
DetectIntentStep ==
  /\ intent = NoIntent
  /\ intent' = detectIntent(msg)
  /\ UNCHANGED <<datasets, tickets, upload, out, msg, report, chat>>

----------------------------------------------------------------------------
(* analyzeDataByQuery (lib/prisma).  `figures` are the numbers interpolated *)
(* into the summary and insight sentences, in source order; a sentence      *)
(* built with  x?.toFixed(1) || 'N/A'  contributes no figure when x is null *)

TypeErrorMessage == "Cannot read properties of undefined"
ReduceErrorMessage == "Reduce of empty array with no initial value"

TopIssueTypes == 5      \* take: 5

AddNum(x, y) ==
  IF IsFinite(x) /\ IsFinite(y) THEN Fin(x.num * y.den + y.num * x.den, x.den * y.den)
  ELSE NaN

RECURSIVE SumNums(_)
SumNums(xs) == IF xs = <<>> THEN Fin(0, 1) ELSE AddNum(Head(xs), SumNums(Tail(xs)))

\* x / n for a computed number x and a count n
DivNum(x, n) ==
  IF ~IsFinite(x) THEN x
  ELSE IF n # 0 THEN Fin(x.num, x.den * n)
  ELSE IF x.num = 0 THEN NaN ELSE PosInf

Threw(message) ==
  [threw |-> TRUE, message |-> message, chartType |-> "", data |-> <<>>, figures |-> <<>>]

Analysis(chartType, data, figures) ==
  [threw |-> FALSE, message |-> "", chartType |-> chartType, data |-> data,
   figures |-> figures]

\* [...].sort((a, b) => b.satisfaction - a.satisfaction): stable, descending
RECURSIVE InsertBySatisfactionDesc(_, _)
InsertBySatisfactionDesc(sorted, x) ==
  IF sorted = <<>> THEN <<x>>
  ELSE IF NumLeq(x.satisfaction, Head(sorted).satisfaction)
       THEN <<Head(sorted)>> \o InsertBySatisfactionDesc(Tail(sorted), x)
       ELSE <<x>> \o sorted

RECURSIVE SortBySatisfactionDesc(_)
SortBySatisfactionDesc(xs) ==
  IF xs = <<>> THEN <<>>
  ELSE InsertBySatisfactionDesc(SortBySatisfactionDesc(SubSeq(xs, 1, Len(xs) - 1)),
                                xs[Len(xs)])

AgentGroups(rows) == GroupsBy([i \in 1..Len(rows) |-> rows[i].agentId])

\* drops the null figures of  x?.toFixed(1) || 'N/A'
Figures(xs) == SelectSeq(xs, LAMBDA x : x.kind # "null")

StatusData(totalTickets, resolvedTickets) ==
  <<[name |-> "Total Tickets", value |-> totalTickets],
    [name |-> "Resolved", value |-> resolvedTickets],
    [name |-> "Pending", value |-> totalTickets - resolvedTickets]>>

analyzeDataByQuery(table, datasetId, query, chartType, ord) ==
  LET lowerQuery == toLowerCase(query)
      rows == RowsOf(table, datasetId)
      totalTickets == Len(rows)
      resolvedTickets == Len(SelectSeq(rows, LAMBDA t : t.resolutionTime > 0))
      times == ResolutionTimes(rows)
      rates == SatisfactionRates(rows)
      \* groupBy issueType, orderBy count desc, take 5
      byCount == SortByCountDesc(ord.issue)
      issueTypes == SubSeq(byCount, 1, IF Len(byCount) < TopIssueTypes THEN Len(byCount)
                                        ELSE TopIssueTypes)
      resolutionRate == Times(Div(resolvedTickets, totalTickets), 100)
  IN
  IF Includes(lowerQuery, Keyword.ticket)
     /\ (Includes(lowerQuery, QueryKeyword.status) \/ Includes(lowerQuery, QueryKeyword.resolved))
  THEN Analysis("bar", StatusData(totalTickets, resolvedTickets),
                Figures(<<resolutionRate, AggAvg(times), resolutionRate,
                          AggAvg(times), AggMin(times), AggMax(times)>>))
  ELSE IF Includes(lowerQuery, Keyword.issue) \/ Includes(lowerQuery, Keyword.type)
          \/ Includes(lowerQuery, Keyword.distribution)
  THEN LET data == [i \in 1..Len(issueTypes) |->
                      [type |-> issueTypes[i].key, count |-> issueTypes[i].count]]
           totalIssues == SumCounts(data)
           top3 == SubSeq(data, 1, IF Len(data) < 3 THEN Len(data) ELSE 3)
       IN  IF data = <<>> THEN Threw(TypeErrorMessage)      \* topIssue.type
           ELSE Analysis("pie", data,
                         <<Times(Div(data[1].count, totalIssues), 100),
                           Times(Div(SumCounts(top3), totalIssues), 100)>>)
  ELSE IF Includes(lowerQuery, QueryKeyword.agent) \/ Includes(lowerQuery, QueryKeyword.performance)
  THEN LET ofAgent(a) == SelectSeq(rows, LAMBDA t : t.agentId = a)
           data == SortBySatisfactionDesc(
                     [i \in 1..Len(ord.agent) |->
                        [name |-> ord.agent[i].key,
                         resolutionTime |-> OrZero(AggAvg(ResolutionTimes(ofAgent(ord.agent[i].key)))),
                         satisfaction |-> OrZero(AggAvg(SatisfactionRates(ofAgent(ord.agent[i].key)))),
                         tickets |-> ord.agent[i].count]])
       IN  IF data = <<>> THEN Threw(TypeErrorMessage)      \* topAgent.name
           ELSE Analysis("bar", data,
                         <<data[1].satisfaction, data[1].resolutionTime,
                           DivNum(SumNums([i \in 1..Len(data) |-> data[i].resolutionTime]),
                                  Len(data))>>)
  ELSE IF Includes(lowerQuery, Keyword.satisfaction) \/ Includes(lowerQuery, Keyword.rating)
  THEN LET stars == SortedInts({g.key : g \in RatingGroups(rows)})
           countOf(r) == Cardinality({i \in 1..Len(rows) : rows[i].satisfactionRate = r})
           data == [i \in 1..Len(stars) |-> [name |-> stars[i], value |-> countOf(stars[i])]]
           highSatisfaction ==
             SumSeq([i \in 1..Len(data) |-> IF data[i].name >= 4 THEN data[i].value ELSE 0])
           totalRated == SumSeq([i \in 1..Len(data) |-> data[i].value])
       IN  IF data = <<>> THEN Threw(ReduceErrorMessage)    \* data.reduce(...)
           ELSE Analysis("bar", data,
                         <<AggAvg(rates), Times(Div(highSatisfaction, totalRated), 100)>>)
  ELSE IF Includes(lowerQuery, QueryKeyword.resolution) \/ Includes(lowerQuery, Keyword.time)
  THEN LET resolutionData == getResolutionTimeAnalytics(rows)
       IN  Analysis("line", resolutionData.data,
                    <<resolutionData.avgResolutionTime, resolutionData.percentageUnderDay,
                      resolutionData.fastestResolution, resolutionData.slowestResolution>>)
  ELSE IF issueTypes = <<>> THEN Threw(TypeErrorMessage)    \* issueTypes[0].issueType
  ELSE Analysis("bar", StatusData(totalTickets, resolvedTickets),
                Figures(<<resolutionRate, AggAvg(times), AggAvg(rates)>>))

\* the chart types a caller may pass: none (the parameter's default 'auto'
\* applies), 'auto', the four chart types of the UI, and another word
ChartTypes == {"", "auto", "bar", "line", "pie", "table", "scatter"}

ValidChartTypes == {"bar", "line", "pie", "table"}

\* the queries the visualisation tool is called with: one per branch of
\* analyzeDataByQuery, and none
VisualizeQueries ==
  {JoinWords(ws) : ws \in
     {<<Word.tickets, Word.status>>, <<Word.distribution, Word.type>>, <<Word.agent>>,
      <<Word.rating>>, <<Word.time>>, <<Word.Hello>>, <<>>}}

\* case "visualizeData" of handleToolExecution
toolVisualizeData(table, datasetId, query, chartType, ord) ==
  IF datasetId = 0 THEN [type |-> "error", message |-> "Dataset ID is required"]
  ELSE IF query = <<>> THEN [type |-> "error", message |-> "Query is required"]
  ELSE LET result == analyzeDataByQuery(table, datasetId, query,
                                        IF chartType = "" THEN "auto" ELSE chartType, ord)
       IN  IF result.threw
           THEN [type |-> "error", message |-> "Failed to visualize data"]
           ELSE [type |-> "data-visualization",
                 data |-> [result EXCEPT !.chartType =
                             IF result.chartType \in ValidChartTypes
                             THEN result.chartType ELSE "table"]]

\* one call of the visualisation tool on a stored dataset (or without one);
\* `ret` is what analyzeDataByQuery returned to it
CallVisualizeData ==
  /\ ReadyForCall
  /\ \E datasetId \in Range(datasets) \cup {0}, query \in VisualizeQueries,
        chartType \in ChartTypes :
       \E ord \in {[NoOrders EXCEPT !.issue = o.issue, !.agent = o.agent] :
                     o \in [issue : Orderings(IssueGroups(RowsOf(tickets, datasetId))),
                            agent : Orderings(AgentGroups(RowsOf(tickets, datasetId)))]} :
         out' = [op |-> "visualize", ds |-> datasetId, query |-> query,
                 chartType |-> chartType,
                 ret |-> analyzeDataByQuery(tickets, datasetId, query,
                                            IF chartType = "" THEN "auto" ELSE chartType, ord),
                 ui |-> toolVisualizeData(tickets, datasetId, query, chartType, ord)]
  /\ UNCHANGED <<datasets, tickets, upload, msg, intent, report, chat>>

----------------------------------------------------------------------------
(* getDatasetSummary (lib/prisma) *)

\* getDatasetSummary(datasetId): [threw, result]; datasetId 0 is an id that
\* no dataset has.  The dates are '' (0) over no tickets.
getDatasetSummary(table, ds, datasetId, issueOrd) ==
  IF datasetId \notin Range(ds)
  THEN [threw |-> TRUE, result |-> [message |-> "Dataset not found"]]
  ELSE LET rows == RowsOf(table, datasetId)
           dates == {DateKey(rows[i].date) : i \in 1..Len(rows)}
           byCount == SortByCountDesc(issueOrd)
       IN  [threw |-> FALSE,
            result |->
              [id |-> datasetId,
               recordCount |-> Len(rows),
               dateRange |-> [start |-> IF dates = {} THEN 0 ELSE SetMin(dates),
                              end   |-> IF dates = {} THEN 0 ELSE SetMax(dates)],
               metrics |->
                 [avgResolutionTime |-> OrZero(AggAvg(ResolutionTimes(rows))),
                  avgSatisfactionRate |-> OrZero(AggAvg(SatisfactionRates(rows))),
                  topIssueTypes |->
                    SubSeq(byCount, 1, IF Len(byCount) < TopIssueTypes THEN Len(byCount)
                                       ELSE TopIssueTypes)]]]

\* a direct call of the exported getDatasetSummary
CallDatasetSummary ==
  /\ ReadyForCall
  /\ \E datasetId \in Range(datasets) \cup {0} :
       \E issueOrd \in Orderings(IssueGroups(RowsOf(tickets, datasetId))) :
         out' = [op |-> "summary", ds |-> datasetId,
                 ret |-> getDatasetSummary(tickets, datasets, datasetId, issueOrd)]
  /\ UNCHANGED <<datasets, tickets, upload, msg, intent, report, chat>>

----------------------------------------------------------------------------
(* Chat action (actions.tsx): tools, handleUserMessage, sendMessage *)

AnalyticsMetrics ==
  {"agent_performance", "ticket_trends", "satisfaction", "issue_distribution",
   "resolution_time"}

QueryConfig(metric, chartType, groupBy) ==
  [metric |-> metric, chartType |-> chartType, groupBy |-> groupBy]

\* ANALYTICS_QUERIES handing the frontend name of the trends metric to the
\* aggregation layer
ANALYTICS_QUERIES_TrendsUnmapped ==
  [m \in AnalyticsMetrics |->
     CASE m = "agent_performance"  -> QueryConfig("resolution_time", "bar", "agent")
       [] m = "ticket_trends"      -> QueryConfig("ticket_trends", "line", "month")
       [] m = "satisfaction"       -> QueryConfig("satisfaction", "bar", "priority")
       [] m = "issue_distribution" -> QueryConfig("issue_distribution", "pie", "category")
       [] m = "resolution_time"    -> QueryConfig("resolution_time", "line", "date")]

ANALYTICS_QUERIES ==
  [m \in AnalyticsMetrics |->
     CASE m = "agent_performance"  -> QueryConfig("resolution_time", "bar", "agent")
       [] m = "ticket_trends"      -> QueryConfig("ticket_count", "line", "month")
       [] m = "satisfaction"       -> QueryConfig("satisfaction", "bar", "priority")
       [] m = "issue_distribution" -> QueryConfig("issue_distribution", "pie", "category")
       [] m = "resolution_time"    -> QueryConfig("resolution_time", "line", "date")]

\* getDatasetList: the dataset ids, latest createdAt first
RECURSIVE Reverse(_)
Reverse(xs) == IF xs = <<>> THEN <<>> ELSE Append(Reverse(Tail(xs)), Head(xs))

\* a list in ascending order of createdAt
getDatasetList_OldestFirst(ds) == ds

\* findMany({orderBy: {createdAt: 'desc'}})
getDatasetList(ds) == Reverse(ds)

ErrorUI(message) == [type |-> "error", message |-> message]

NoDatasetsMessage == "No datasets found. Please upload a dataset first."

Metric(label, value) == [label |-> label, value |-> value]

\* Object.entries(rawAnalytics) without the data / ratingDistribution /
\* insights keys; the values are numbers, shown with toLocaleString
SummaryEntries(backendMetric, raw) ==
  CASE backendMetric = "resolution_time" ->
         <<Metric("AvgResolutionTime", raw.avgResolutionTime),
           Metric("FastestResolution", raw.fastestResolution),
           Metric("SlowestResolution", raw.slowestResolution),
           Metric("PercentageUnderDay", raw.percentageUnderDay)>>
    [] backendMetric = "satisfaction" ->
         <<Metric("AvgRating", raw.avgRating),
           Metric("PercentageHigh", raw.percentageHigh),
           Metric("PercentageLow", raw.percentageLow)>>
    [] backendMetric = "ticket_count" ->
         <<Metric("TotalTickets", Fin(raw.totalTickets, 1)),
           Metric("AvgTicketsPerPeriod", raw.avgTicketsPerPeriod),
           Metric("MaxTicketsInPeriod", raw.maxTicketsInPeriod)>>

getMetricTitle(metric) ==
  CASE metric = "resolution_time"    -> "Resolution Time Analysis"
    [] metric = "satisfaction"       -> "Satisfaction Score Analysis"
    [] metric = "issue_distribution" -> "Issue Type Distribution"
    [] metric = "agent_performance"  -> "Agent Performance Analysis"
    [] metric = "ticket_trends"      -> "Ticket Volume Trends"
    [] OTHER                         -> metric

\* { type: "analytics", data: analytics, metric }, the keys of the
\* AnalyticsData object side by side with type and metric
AnalyticsUI(metric, summaryMetrics, insights, data) ==
  [type |-> "analytics", metric |-> metric,
   title |-> getMetricTitle(metric),
   description |-> [metric |-> metric, groupBy |-> ANALYTICS_QUERIES[metric].groupBy],
   summaryMetrics |-> summaryMetrics, insights |-> insights, data |-> data]

\* handleToolExecution, case "getTicketAnalytics"
toolGetTicketAnalytics(table, ds, metric, ord) ==
  IF metric = "" THEN ErrorUI("Failed to fetch analytics: Metric is required")
  ELSE IF metric \notin AnalyticsMetrics THEN ErrorUI("Failed to fetch analytics: Invalid metric")
  ELSE IF getDatasetList(ds) = <<>> THEN ErrorUI(NoDatasetsMessage)
  ELSE IF metric \notin DOMAIN ANALYTICS_QUERIES
  THEN ErrorUI("Failed to fetch analytics: No query configuration found")
  ELSE
    LET currentDatasetId == getDatasetList(ds)[1]
        queryConfig == ANALYTICS_QUERIES[metric]
        ret == getTicketAnalytics(table, currentDatasetId, queryConfig.metric,
                                  queryConfig.groupBy, ord)
        raw == ret.result
    IN  IF ret.threw THEN ErrorUI("Failed to fetch analytics: Unsupported metric")
        ELSE IF metric = "issue_distribution"
        THEN IF raw.categories = <<>>                        \* categories[0].name
             THEN ErrorUI("Failed to fetch analytics: Cannot read properties of undefined")
             ELSE AnalyticsUI(metric,
                              <<Metric("Top Issue",
                                       [kind |-> "text", text |-> raw.topIssue.type,
                                        num |-> raw.topIssue.count, den |-> 1]),
                                Metric("Total Categories", Fin(Len(raw.categories), 1))>>,
                              <<Fin(raw.topIssue.count, 1), Fin(raw.categories[1].count, 1)>>,
                              raw.issueDistribution)
        ELSE AnalyticsUI(metric,
                         SummaryEntries(queryConfig.metric, raw),
                         IF queryConfig.metric = "ticket_count" THEN raw.insights ELSE <<>>,
                         IF metric = "satisfaction" THEN raw.ratingDistribution ELSE raw.data)

\* handleToolExecution, case "listDatasets"
toolListDatasets(table, ds) ==
  [type |-> "dataset-list",
   data |-> [i \in 1..Len(ds) |->
               [id |-> getDatasetList(ds)[i],
                recordCount |-> Len(RowsOf(table, getDatasetList(ds)[i]))]]]

TitleCase(metric) ==
  CASE metric = "resolution_time"    -> "Resolution Time"
    [] metric = "satisfaction"       -> "Satisfaction"
    [] metric = "issue_distribution" -> "Issue Distribution"
    [] metric = "ticket_trends"      -> "Ticket Trends"
    [] metric = "agent_performance"  -> "Agent Performance"
    [] metric = "response_time"      -> "Response Time"
    [] OTHER                         -> metric

UnableSection(metric) ==
  [title |-> TitleCase(metric), content |-> "Unable to retrieve data for this metric.",
   chartType |-> "", figures |-> <<>>, data |-> <<>>]

ReportSection(metric, content, chartType, figures, data) ==
  [title |-> TitleCase(metric), content |-> content, chartType |-> chartType,
   figures |-> figures, data |-> data]

\* the callback of metrics.map in case "generateReport": one section
reportSection(table, datasetId, metric, ord) ==
  IF metric \notin DOMAIN ANALYTICS_QUERIES THEN UnableSection(metric)
  ELSE
    LET queryConfig == ANALYTICS_QUERIES[metric]
        ret == getTicketAnalytics(table, datasetId, queryConfig.metric,
                                  queryConfig.groupBy, ord)
        d == ret.result
    IN  IF ret.threw THEN UnableSection(metric)
        ELSE CASE queryConfig.metric = "resolution_time" ->
                    ReportSection(metric, "Average resolution time is", queryConfig.chartType,
                                  <<d.avgResolutionTime, d.percentageUnderDay,
                                    d.fastestResolution, d.slowestResolution,
                                    d.percentageUnderDay>>, d.data)
               [] queryConfig.metric = "satisfaction" ->
                    ReportSection(metric, "Overall customer satisfaction rating is",
                                  queryConfig.chartType,
                                  <<d.avgRating, d.percentageHigh, d.percentageLow>>,
                                  d.ratingDistribution)
               [] queryConfig.metric = "issue_distribution" ->
                    IF d.categories = <<>> THEN UnableSection(metric)   \* categories[0].name
                    ELSE ReportSection(metric, "Analysis of issue distribution across", "pie",
                                       <<Fin(Len(d.issueDistribution), 1),
                                         Fin(d.topIssue.count, 1),
                                         Fin(d.categories[1].count, 1)>>,
                                       d.issueDistribution)
               [] queryConfig.metric = "ticket_count" ->
                    ReportSection(metric, "Analysis of ticket volume trends over time.", "line",
                                  <<Fin(d.totalTickets, 1), d.avgTicketsPerPeriod,
                                    d.maxTicketsInPeriod>>, d.data)

\* handleToolExecution, case "generateReport" (datasetId 0: none given)
toolGenerateReport(table, ds, datasetId, reportType, metrics, ord) ==
  IF datasetId = 0 THEN ErrorUI("Dataset ID is required")
  ELSE IF reportType = "" THEN ErrorUI("Report type is required")
  ELSE IF metrics = <<>> THEN ErrorUI("At least one metric must be specified")
  ELSE IF datasetId \notin Range(ds) THEN ErrorUI("Dataset not found")
  ELSE [type |-> "report",
        data |-> [datasetId |-> datasetId, reportType |-> reportType, metrics |-> metrics,
                  sections |-> [i \in 1..Len(metrics) |->
                                  reportSection(table, datasetId, metrics[i], ord)]]]

----------------------------------------------------------------------------
(* generateReport step by step.  metrics.map(async ...) runs every callback *)
(* up to its first await before Promise.all is entered: a callback whose    *)
(* metric has no query configuration has thrown and been caught by then,    *)
(* every other one has called getTicketAnalytics and waits for its answer.  *)

\* the metric names a caller may put in the list; the last has no entry in
\* ANALYTICS_QUERIES
MetricNames == AnalyticsMetrics \cup {"response_time"}

NoReport == [pc |-> "idle"]

Pending == [title |-> "", content |-> "pending", chartType |-> "", figures |-> <<>>,
            data |-> <<>>]

\* the argument checks of case "generateReport": the error message, "" if none
ReportArgsError(ds, datasetId, reportType, metrics) ==
  IF datasetId = 0 THEN "Dataset ID is required"
  ELSE IF reportType = "" THEN "Report type is required"
  ELSE IF metrics = <<>> THEN "At least one metric must be specified"
  ELSE IF datasetId \notin Range(ds) THEN "Dataset not found"
  ELSE ""

\* the callbacks that wait for their query only after the one before them
\* has been answered: none but the first is started by the map
StartedByMap_OneAtATime(metrics) ==
  IF \E i \in 1..Len(metrics) : metrics[i] \in AnalyticsMetrics
  THEN {SetMin({i \in 1..Len(metrics) : metrics[i] \in AnalyticsMetrics})}
  ELSE {}

\* the callbacks that have called getTicketAnalytics when the map returns
StartedByMap(metrics) == {i \in 1..Len(metrics) : metrics[i] \in AnalyticsMetrics}

\* case "generateReport" up to Promise.all
ReportStart ==
  /\ report.pc = "idle"
  /\ \E datasetId \in Range(datasets) \cup {0}, reportType \in {"General", ""},
        metrics \in SeqsUpTo(MetricNames, MaxMetrics) :
       LET err == ReportArgsError(datasets, datasetId, reportType, metrics)
       IN  report' =
             IF err # ""
             THEN [pc |-> "done", datasetId |-> datasetId, reportType |-> reportType,
                   metrics |-> metrics, started |-> {}, answered |-> <<>>,
                   sections |-> <<>>, result |-> ErrorUI(err)]
             ELSE [pc |-> "running", datasetId |-> datasetId, reportType |-> reportType,
                   metrics |-> metrics, started |-> StartedByMap(metrics),
                   answered |-> <<>>,
                   sections |-> [i \in 1..Len(metrics) |->
                                   IF metrics[i] \in AnalyticsMetrics THEN Pending
                                   ELSE UnableSection(metrics[i])],
                   result |-> ErrorUI("")]
  /\ UNCHANGED <<datasets, tickets, upload, out, msg, intent, chat>>

\* one pending getTicketAnalytics call is answered and its callback runs to
\* its return; `answered` lists the callbacks in the order of their answers
ReportQueryDone ==
  /\ report.pc = "running"
  /\ \E i \in report.started :
       /\ report.sections[i] = Pending
       /\ \E ord \in OrdersFor(RowsOf(tickets, report.datasetId),
                               ANALYTICS_QUERIES[report.metrics[i]].metric) :
            report' = [report EXCEPT
                         !.sections[i] = reportSection(tickets, report.datasetId,
                                                       report.metrics[i], ord),
                         !.answered = Append(@, i)]
  /\ UNCHANGED <<datasets, tickets, upload, out, msg, intent, chat>>

\* ReportFinish had the callbacks no try/catch of their own: a failed metric
\* rejects Promise.all and the outer catch answers for the whole report
ReportFinish_RejectOnFailure ==
  /\ report.pc = "running"
  /\ \A i \in 1..Len(report.metrics) : report.sections[i] # Pending
  /\ report' = [report EXCEPT
                  !.pc = "done",
                  !.result =
                     IF \E i \in 1..Len(report.metrics) :
                          report.sections[i] = UnableSection(report.metrics[i])
                     THEN ErrorUI("Failed to generate report. Please verify the parameters and try again.")
                     ELSE [type |-> "report",
                           data |-> [datasetId |-> report.datasetId,
                                     reportType |-> report.reportType,
                                     metrics |-> report.metrics,
                                     sections |-> report.sections]]]
  /\ UNCHANGED <<datasets, tickets, upload, out, msg, intent, chat>>

\* Promise.all resolves: the report is returned
ReportFinish ==
  /\ report.pc = "running"
  /\ \A i \in 1..Len(report.metrics) : report.sections[i] # Pending
  /\ report' = [report EXCEPT
                  !.pc = "done",
                  !.result = [type |-> "report",
                              data |-> [datasetId |-> report.datasetId,
                                        reportType |-> report.reportType,
                                        metrics |-> report.metrics,
                                        sections |-> report.sections]]]
  /\ UNCHANGED <<datasets, tickets, upload, out, msg, intent, chat>>

----------------------------------------------------------------------------
Returned(ui) == [threw |-> FALSE, message |-> "", ui |-> ui]

\* the arguments handleUserMessage passes to a tool
ToolArgs(metric, datasetId, reportType, metrics) ==
  [metric |-> metric, datasetId |-> datasetId, reportType |-> reportType,
   metrics |-> metrics]

\* handleToolExecution: the switch over the tool name, for the tools that
\* handleUserMessage names (the case "visualizeData" is toolVisualizeData)
handleToolExecution(toolName, args, table, ds, ord) ==
  CASE toolName = "uploadDataset" -> [type |-> "dataset-upload"]
    [] toolName = "listDatasets" -> toolListDatasets(table, ds)
    [] toolName = "getTicketAnalytics" -> toolGetTicketAnalytics(table, ds, args.metric, ord)
    [] toolName = "generateReport" ->
         toolGenerateReport(table, ds, args.datasetId, args.reportType, args.metrics, ord)
    [] OTHER -> ErrorUI("Unknown tool")

\* the tool handleUserMessage calls for an intent ("": it calls none)
ToolOf(intentName) ==
  CASE intentName = "upload_dataset" -> "uploadDataset"
    [] intentName = "list_datasets" -> "listDatasets"
    [] intentName = "show_analytics" -> "getTicketAnalytics"
    [] intentName = "generate_report" -> "generateReport"
    [] OTHER -> ""

\* the default case of the switch: handleUserMessage returns undefined
Undefined == Returned([type |-> "undefined"])

\* what sendMessage returns from its LLM branch: a streamed UI
StreamedReply == [role |-> "assistant", caught |-> FALSE, ui |-> [type |-> "stream"]]

\* handleUserMessage: [threw, message, ui].  The cases that call a tool
\* differ only in the arguments they pass to handleToolExecution.
handleUserMessage(table, ds, message, ord) ==
  LET it == detectIntent(message)
  IN
    CASE it.intent \in {"generate_report", "analyze_data"} /\ getDatasetList(ds) = <<>> ->
           Returned(ErrorUI(NoDatasetsMessage))
      [] it.intent = "analyze_data" ->
           IF it.query = <<>> THEN Returned(ErrorUI("No query provided for analysis."))
           ELSE LET result == analyzeDataByQuery(table, getDatasetList(ds)[1], it.query,
                                                 "auto", ord)
                IN
                  IF result.threw
                  THEN [threw |-> TRUE, message |-> result.message, ui |-> ErrorUI("")]
                  ELSE Returned([type |-> "data-visualization", data |-> result])
      [] ToolOf(it.intent) # "" ->
           Returned(handleToolExecution(
                      ToolOf(it.intent),
                      CASE it.intent = "show_analytics" -> ToolArgs(it.metric, 0, "", <<>>)
                        [] it.intent = "generate_report" ->
                             ToolArgs("", getDatasetList(ds)[1], it.reportType, it.metrics)
                        [] OTHER -> ToolArgs("", 0, "", <<>>),
                      table, ds, ord))
      [] OTHER -> Undefined

\* sendMessage without its try/catch: the promise is rejected
sendMessage_NoCatch(table, ds, message, ord) ==
  LET toolResponse == handleUserMessage(table, ds, message, ord)
  IN  IF toolResponse.threw
      THEN [role |-> "rejected", caught |-> FALSE, ui |-> ErrorUI(toolResponse.message)]
      ELSE IF toolResponse = Undefined THEN StreamedReply
      ELSE [role |-> "assistant", caught |-> FALSE, ui |-> toolResponse.ui]

\* sendMessage: the assistant UI message returned to the caller; `caught`
\* tells that it was built by the catch block
sendMessage(table, ds, message, ord) ==
  LET toolResponse == handleUserMessage(table, ds, message, ord)
  IN  IF toolResponse.threw
      THEN [role |-> "assistant", caught |-> TRUE, ui |-> ErrorUI(toolResponse.message)]
      ELSE IF toolResponse = Undefined THEN StreamedReply
      ELSE [role |-> "assistant", caught |-> FALSE, ui |-> toolResponse.ui]

\* the message of the error with which a database query rejects when the
\* database cannot be reached
DbErrorMessage == "Can't reach database server"

\* handleUserMessage when every database query of the request rejects: the
\* tools catch the error themselves, the getDatasetList calls of the
\* generate_report and analyze_data cases are made outside any try
handleUserMessageDbDown(message) ==
  LET it == detectIntent(message)
  IN  CASE it.intent = "upload_dataset" -> Returned([type |-> "dataset-upload"])
        [] it.intent = "list_datasets" ->
             Returned(ErrorUI("Failed to fetch datasets. Please try again later."))
        [] it.intent = "show_analytics" ->
             Returned(ErrorUI("Failed to fetch analytics: " \o DbErrorMessage))
        [] it.intent \in {"generate_report", "analyze_data"} ->
             [threw |-> TRUE, message |-> DbErrorMessage, ui |-> ErrorUI("")]
        [] OTHER -> Undefined

sendMessageDbDown(message) ==
  LET toolResponse == handleUserMessageDbDown(message)
  IN  IF toolResponse.threw
      THEN [role |-> "assistant", caught |-> TRUE, ui |-> ErrorUI(toolResponse.message)]
      ELSE IF toolResponse = Undefined THEN StreamedReply
      ELSE [role |-> "assistant", caught |-> FALSE, ui |-> toolResponse.ui]

\* `Analyzing dataset "${name}" (ID: ${datasetId}): ${message}`
contextualMessage(name, datasetId, message) ==
  <<"A", "n", "a", "l", "y", "z", "i", "n", "g", " ", "d", "a", "t", "a", "s", "e", "t", " ", "\"">> \o name \o <<"\"", " ", "(", "I", "D", ":", " ">> \o <<datasetId>> \o <<")", ":", " ">> \o message

\* a question about resolution times sent from the analysis page of the
\* dataset with id 1
PageQuestion == contextualMessage(Word.Hello, "1", Word.time)

IssueTypesQuestion ==
  <<"W", "h", "a", "t", "'", "s", " ", "t", "h", "e", " ",
    "d", "i", "s", "t", "r", "i", "b", "u", "t", "i", "o", "n", " ", "o", "f", " ",
    "i", "s", "s", "u", "e", " ", "t", "y", "p", "e", "s", "?">>

\* the messages sent in the store model: one per intent and per branch of
\* analyzeDataByQuery that the router lets through, the empty message, the
\* question of the issue-distribution scenario, and a message of the
\* dataset analysis page
ChatMessages ==
  {JoinWords(ws) : ws \in
     {<<Word.Upload>>, <<Word.list, Word.datasets>>, <<Word.Generate, Word.report>>,
      <<Word.resolution, Word.time>>, <<Word.tickets, Word.trend>>, <<Word.rating>>,
      <<Word.distribution, Word.type>>, <<Word.Hello>>, <<Word.time>>, <<Word.type>>,
      <<Word.tickets, Word.status>>, <<Word.agent>>, <<>>}}
    \cup {IssueTypesQuestion, PageQuestion}

\* the group orders a chat request may meet: those of the latest dataset
\* for the groupBy queries that the request's intent runs
ChatOrders(table, ds, message) ==
  IF ds = <<>> THEN {NoOrders}
  ELSE LET rows == RowsOf(table, getDatasetList(ds)[1])
           it == detectIntent(message)
       IN  CASE it.intent = "show_analytics" ->
                  OrdersFor(rows, ANALYTICS_QUERIES[it.metric].metric)
             [] it.intent = "generate_report" ->
                  {[NoOrders EXCEPT !.rating = o.rating, !.issue = o.issue,
                                    !.category = o.category] :
                     o \in [rating : Orderings(RatingGroups(rows)),
                            issue : Orderings(IssueGroups(rows)),
                            category : Orderings(CategoryGroups(rows))]}
             [] it.intent = "analyze_data" ->
                  {[NoOrders EXCEPT !.issue = o.issue, !.agent = o.agent] :
                     o \in [issue : Orderings(IssueGroups(rows)),
                            agent : Orderings(AgentGroups(rows))]}
             [] OTHER -> {NoOrders}

\* one call of the server action sendMessage; its database reads are taken
\* at one instant.  `ds` records the dataset the request read (0: none).
SendMessage ==
  /\ ReadyForCall
  /\ \E m \in ChatMessages :
     \E ord \in ChatOrders(tickets, datasets, m) :
       out' = [op |-> "chat", message |-> m, db |-> "up",
               ds |-> IF datasets = <<>> THEN 0 ELSE getDatasetList(datasets)[1],
               reply |-> sendMessage(tickets, datasets, m, ord)]
  /\ UNCHANGED <<datasets, tickets, upload, msg, intent, report, chat>>

\* one call of sendMessage while the database cannot be reached
SendMessageDbDown ==
  /\ ReadyForCall
  /\ \E m \in ChatMessages :
       out' = [op |-> "chat", message |-> m, db |-> "down", ds |-> 0,
               reply |-> sendMessageDbDown(m)]
  /\ UNCHANGED <<datasets, tickets, upload, msg, intent, report, chat>>

----------------------------------------------------------------------------
(* One chat session.  The AI state holds the AI message list and the UI     *)
(* message list; a sendMessage call reads both lists when it starts, awaits *)
(* handleUserMessage, and then writes both lists with aiState.done.         *)

\* initialAIState; `overlapped` records that a call started while another
\* one was between its start and its aiState.done
NoChat == [messages |-> <<>>, uiMessages |-> <<>>,
           calls |-> [c \in 1..MaxCalls |->
                       [pc |-> "idle", message |-> <<>>, currentAIMessages |-> <<>>,
                        currentUIState |-> <<>>]],
           overlapped |-> FALSE]

\* the ids are those of generateId(): no two messages have the same
userMessage(message) == [role |-> "user", content |-> message]
userUIMessage(c, message) == [id |-> 2 * c - 1, role |-> "user", content |-> message]

\* the assistant's content: the fixed sentence of the tool path, or the
\* sentence of the catch block
assistantContent(reply) ==
  IF reply.caught THEN "I encountered an error" ELSE "Here's the information you requested:"

assistantMessage(reply) == [role |-> "assistant", content |-> assistantContent(reply)]
assistantUIMessage(c, reply) ==
  [id |-> 2 * c, role |-> "assistant", content |-> assistantContent(reply),
   ui |-> reply.ui]

\* aiState.done({...aiState.get(), messages: [...currentAIMessages, userMessage,
\* assistantMessage], uiState: {messages: [...currentUIState, userUIMessage,
\* assistantUIMessage]}}): the lists read when the call started, plus two
aiStateDone(call, userMessages, assistantMessages) ==
  [messages |-> call.currentAIMessages \o <<userMessages[1], assistantMessages[1]>>,
   uiMessages |-> call.currentUIState \o <<userMessages[2], assistantMessages[2]>>]

\* sendMessage up to its await: the call reads the two lists
SendMessageBegin ==
  \E c \in 1..MaxCalls,
     m \in {JoinWords(ws) : ws \in {<<Word.Upload>>, <<Word.list, Word.datasets>>, <<Word.Hello>>}} :
    /\ chat.calls[c].pc = "idle"
    /\ \A b \in 1..(c - 1) : chat.calls[b].pc # "idle"
    /\ chat' = [chat EXCEPT
                  !.calls[c] = [pc |-> "running", message |-> m,
                                currentAIMessages |-> chat.messages,
                                currentUIState |-> chat.uiMessages],
                  !.overlapped = @ \/ \E b \in 1..MaxCalls : chat.calls[b].pc = "running"]
    /\ UNCHANGED <<datasets, tickets, upload, out, msg, intent, report>>

\* sendMessage from the return of handleUserMessage on: the tool path or
\* the catch block writes the AI state
SendMessageEnd ==
  \E c \in 1..MaxCalls :
    /\ chat.calls[c].pc = "running"
    /\ \E reply \in {sendMessage(tickets, datasets, chat.calls[c].message, NoOrders)} :
       \E written \in {aiStateDone(chat.calls[c],
                                    <<userMessage(chat.calls[c].message),
                                      userUIMessage(c, chat.calls[c].message)>>,
                                    <<assistantMessage(reply), assistantUIMessage(c, reply)>>)} :
         chat' = [chat EXCEPT !.messages = written.messages,
                              !.uiMessages = written.uiMessages,
                              !.calls[c].pc = "done"]
    /\ UNCHANGED <<datasets, tickets, upload, out, msg, intent, report>>


----------------------------------------------------------------------------
Init ==
  /\ datasets = <<>>
  /\ tickets = <<>>
  /\ upload = Idle
  /\ out = NoOut
  /\ msg = <<>>
  /\ intent = NoIntent
  /\ report = NoReport
  /\ chat = NoChat

Next ==
  \/ UploadRejected
  \/ UploadCreateDataset
  \/ UploadInsert
  \/ CallTicketAnalytics
  \/ CallDatasetSummary
  \/ SendMessage
  \/ SendMessageDbDown

Spec == Init /\ [][Next]_vars

\* one upload into an empty store, then analytics and chat requests
NextScenario ==
  \/ UploadScenarioFile
  \/ UploadInsert
  \/ CallTicketAnalytics
  \/ SendMessage

SpecScenario == Init /\ [][NextScenario]_vars

\* report generation over the store left by one upload request (a dataset
\* without tickets if the request failed after dataset.create)
InitReport ==
  /\ datasets = <<1>>
  /\ \E file \in Files :
       tickets = IF MapRows(file, 1).threw \/ InsertRejected(MapRows(file, 1).tickets)
                 THEN <<>>
                 ELSE createMany(<<>>, MapRows(file, 1).tickets)
  /\ upload = Idle
  /\ out = NoOut
  /\ msg = <<>>
  /\ intent = NoIntent
  /\ report = NoReport
  /\ chat = NoChat

NextReport ==
  \/ ReportStart
  \/ ReportQueryDone
  \/ ReportFinish

SpecReport == InitReport /\ [][NextReport]_vars

\* one upload of a scenario file into the empty store, and calls of the
\* visualisation tool
NextVisualize ==
  \/ UploadScenarioFile
  \/ UploadInsert
  \/ CallVisualizeData

SpecVisualize == Init /\ [][NextVisualize]_vars

\* sendMessage calls on one chat session over the empty store
NextChat ==
  \/ SendMessageBegin
  \/ SendMessageEnd

SpecChat == Init /\ [][NextChat]_vars

\* the dataset analysis page: names a dataset may have (the upload stores
\* the name given by the user, or the file's name), ids, and texts typed
DatasetNames == {Word.Hello, Word.list, Word.rating}
PageTexts ==
  {JoinWords(ws) : ws \in
     {<<Word.Hello>>, <<Word.time>>, <<Word.type>>, <<Word.agent>>, <<Word.tickets, Word.status>>,
      <<Word.tickets, Word.trend>>, <<Word.Generate, Word.report>>, <<Word.Upload>>, <<>>}}

\* two requests of the dataset analysis page with the same text, each
\* classified by detectIntent
PageRequests ==
  /\ out = NoOut
  /\ \E text \in PageTexts, n1 \in DatasetNames, n2 \in DatasetNames,
        id1 \in {"1", "2"}, id2 \in {"1", "2"} :
       out' = [op |-> "page", text |-> text,
               first |-> [name |-> n1, id |-> id1,
                          intent |-> detectIntent(contextualMessage(n1, id1, text))],
               second |-> [name |-> n2, id |-> id2,
                           intent |-> detectIntent(contextualMessage(n2, id2, text))]]
  /\ UNCHANGED <<datasets, tickets, upload, msg, intent, report, chat>>

SpecPage == Init /\ [][PageRequests]_vars

\* parseDate applied once to any date cell
ParseDateStep ==
  /\ out = NoOut
  /\ \E cell \in DateCells :
       out' = [op |-> "parseDate", cell |-> cell, ret |-> parseDate(cell)]
  /\ UNCHANGED <<datasets, tickets, upload, msg, intent, report, chat>>

SpecParseDate == Init /\ [][ParseDateStep]_vars

\* the intent router on its own: any message, then one classification
InitIntent ==
  /\ datasets = <<>>
  /\ tickets = <<>>
  /\ upload = Idle
  /\ out = NoOut
  /\ msg \in Messages
  /\ intent = NoIntent
  /\ report = NoReport
  /\ chat = NoChat

NextIntent == DetectIntentStep

SpecIntent == InitIntent /\ [][NextIntent]_vars

----------------------------------------------------------------------------
(* Intent router: claims C8 - C10, checked under SpecIntent *)

Classified == intent # NoIntent

\* C8: a message that contains "upload" and both "list" and "dataset", and
\* does not satisfy the report-generation rule, is classified upload_dataset:
\* the upload rule is tested before the list rule.  (detectIntent reads
\* nothing but its argument, so equal messages get equal intents.)
C8_UploadBeforeList ==
  Classified =>
    LET lm == toLowerCase(msg)
    IN  (Includes(lm, Keyword.upload) /\ Includes(lm, Keyword.list) /\ Includes(lm, Keyword.dataset)
         /\ ~ReportRule(lm))
        => intent.intent = "upload_dataset"

C8_Witness ==
  /\ Classified
  /\ intent.intent = "upload_dataset"
  /\ Includes(toLowerCase(msg), Keyword.list)
  /\ Includes(toLowerCase(msg), Keyword.dataset)

\* the rules of detectIntent in source order, the fall-through last
RuleHolds(i, lm) ==
  CASE i = 1 -> ReportRule(lm)
    [] i = 2 -> UploadRule(lm)
    [] i = 3 -> ListRule(lm)
    [] i = 4 -> AgentPerformanceRule(lm)
    [] i = 5 -> TicketTrendsRule(lm)
    [] i = 6 -> SatisfactionRule(lm)
    [] i = 7 -> IssueDistributionRule(lm)
    [] OTHER -> TRUE

RuleResult(i) ==
  CASE i = 1 -> <<"generate_report", "">>
    [] i = 2 -> <<"upload_dataset", "">>
    [] i = 3 -> <<"list_datasets", "">>
    [] i = 4 -> <<"show_analytics", "agent_performance">>
    [] i = 5 -> <<"show_analytics", "ticket_trends">>
    [] i = 6 -> <<"show_analytics", "satisfaction">>
    [] i = 7 -> <<"show_analytics", "issue_distribution">>
    [] OTHER -> <<"analyze_data", "">>

FirstRule(lm) == SetMin({i \in 1..8 : RuleHolds(i, lm)})

RulesSatisfied(lm) == {i \in 1..7 : RuleHolds(i, lm)}

\* C9: the intent returned is that of the earliest satisfied rule in the
\* order report, upload, list, the per-metric rules, analyze_data
C9_FirstRuleWins ==
  Classified =>
    <<intent.intent, intent.metric>> = RuleResult(FirstRule(toLowerCase(msg)))

\* a message with "generate", "report" and "upload", classified generate_report
C9_Witness ==
  /\ Classified
  /\ Includes(toLowerCase(msg), Keyword.generate)
  /\ Includes(toLowerCase(msg), Keyword.report)
  /\ Includes(toLowerCase(msg), Keyword.upload)
  /\ intent.intent = "generate_report"

\* C10: a message satisfying no keyword rule is classified analyze_data and
\* the query carried is the message itself, not its lowercased copy
C10_FallThroughKeepsMessage ==
  (Classified /\ RulesSatisfied(toLowerCase(msg)) = {})
    => (intent.intent = "analyze_data" /\ intent.query = msg)

\* an unmatched message with an upper-case letter in it
C10_Witness ==
  /\ Classified
  /\ RulesSatisfied(toLowerCase(msg)) = {}
  /\ msg # toLowerCase(msg)
  /\ intent.intent = "analyze_data"
  /\ intent.query = msg

\* the phrase the documentation pairs with "resolution"
HowLong == <<"h", "o", "w", " ", "l", "o", "n", "g">>

\* C11: a message that contains "resolution" or "how long" and satisfies
\* none of the report, upload and list rules is classified show_analytics
\* with the metric resolution_time
C11_ResolutionKeywords ==
  Classified =>
    LET lm == toLowerCase(msg)
    IN  ((Includes(lm, QueryKeyword.resolution) \/ Includes(lm, HowLong))
         /\ ~ReportRule(lm) /\ ~UploadRule(lm) /\ ~ListRule(lm))
        => intent = ShowAnalytics("resolution_time")

----------------------------------------------------------------------------
(* Store and upload: claims C1 - C3, checked under Spec.                   *)
(* `out` is overwritten by every step that changes `tickets`, so a formula *)
(* may compare the outcome held in `out` with the current tables.          *)

UniqueKey ==
  \A i, j \in 1..Len(tickets) : i # j => ~SameKey(tickets[i], tickets[j])

\* the first row of a file that carries the ticket id
FirstRowWith(file, id) ==
  file[SetMin({i \in 1..Len(file) : file[i].idTicket = id})]

\* C1: no two ticket rows share (ticketId, datasetId); a bulk insert keeps
\* every existing row as it is, and of the rows of a file that repeat a
\* ticket id only the first is stored
C1_IdempotentOnKey ==
  /\ []UniqueKey
  /\ [][ /\ Len(tickets') >= Len(tickets)
         /\ \A i \in 1..Len(tickets) : tickets'[i] = tickets[i]
         /\ (upload.pc = "created" /\ upload'.pc = "idle") =>
              \A i \in 1..Len(tickets') :
                tickets'[i].datasetId = upload.ds =>
                  tickets'[i] = MapRow(FirstRowWith(upload.file, tickets'[i].ticketId),
                                       upload.ds) ]_vars

\* a successful upload of a file that repeats a ticket id
C1_Witness ==
  /\ out.op = "upload"
  /\ out.status = 200
  /\ out.ticketCount > Len(RowsOf(tickets, out.ds))

\* C2: after an upload that failed once the file was parsed, neither the
\* Dataset row nor any Ticket row of that request is stored
C2_NoPartialCommit ==
  (out.op = "upload" /\ out.status = 500) =>
    /\ out.ds \notin Range(datasets)
    /\ RowsOf(tickets, out.ds) = <<>>

\* C3: every ticket's datasetId is the id of a stored dataset
C3_TicketsReferenceDataset ==
  \A i \in 1..Len(tickets) : tickets[i].datasetId \in Range(datasets)

\* tickets stored next to a dataset that a failed upload left behind
C3_Witness ==
  /\ Len(tickets) > 0
  /\ upload.pc = "idle"
  /\ \E ds \in Range(datasets) : RowsOf(tickets, ds) = <<>>

C17_TicketCountIsPersisted ==
  (out.op = "upload" /\ out.status = 200) =>
    /\ Cardinality({i \in 1..Len(datasets) : datasets[i] = out.ds}) = 1
    /\ out.ticketCount = Len(RowsOf(tickets, out.ds))

\* C18: every stored ticket has a satisfactionRate from 1 to 5 and a
\* resolutionTime that is not negative
C18_TicketRanges ==
  \A i \in 1..Len(tickets) :
    /\ tickets[i].satisfactionRate \in 1..5
    /\ tickets[i].resolutionTime >= 0

\* the steps that answer a library call or a chat request
ReadStep == out' # out /\ out'.op \in {"analytics", "summary", "chat"}

IsPrefix(xs, ys) == Len(xs) <= Len(ys) /\ SubSeq(ys, 1, Len(xs)) = xs

\* C19: a step that answers getTicketAnalytics, getDatasetSummary or a chat
\* request (dataset list, analytics, report, free-form analysis) leaves
\* both tables as they are; the tables change only in steps of an upload
\* request, which add rows at the end and leave the rows of every dataset
\* that existed before the request untouched
C19_OnlyUploadWrites ==
  [][/\ ReadStep => (datasets' = datasets /\ tickets' = tickets)
     /\ (datasets' # datasets \/ tickets' # tickets) =>
          /\ upload' # upload
          /\ IsPrefix(datasets, datasets')
          /\ IsPrefix(tickets, tickets')
          /\ \A d \in Range(datasets) :
               d # upload.ds => RowsOf(tickets', d) = RowsOf(tickets, d)]_vars

\* a report was answered over two datasets that both still hold their rows
C19_Witness ==
  /\ out.op = "chat"
  /\ detectIntent(out.message).intent = "generate_report"
  /\ Len(datasets) = 2
  /\ RowsOf(tickets, 1) # <<>>
  /\ RowsOf(tickets, 2) # <<>>

----------------------------------------------------------------------------
(* Aggregation layer: claims C4 - C6, checked under Spec *)

IsAnalytics(metric) ==
  /\ out.op = "analytics"
  /\ ~out.ret.threw
  /\ out.ret.metric = metric

\* C4: the issueDistribution counts sum to the dataset's ticket count and
\* every issue type of the dataset has exactly one entry
C4_IssueCountsSumToTotal ==
  IsAnalytics("issue_distribution") =>
    LET dist == out.ret.result.issueDistribution
        rows == RowsOf(tickets, out.ds)
    IN  /\ SumCounts(dist) = Len(rows)
        /\ \A i \in 1..Len(rows) :
             Cardinality({k \in 1..Len(dist) : dist[k].type = rows[i].issueType}) = 1

\* a dataset with two issue types
C4_Witness ==
  /\ IsAnalytics("issue_distribution")
  /\ Len(out.ret.result.issueDistribution) >= 2

\* C5: over a dataset that has tickets, avgResolutionTime is the arithmetic
\* mean of resolutionTime and fastest/slowest are its minimum and maximum
C5_MeanMinMax ==
  (IsAnalytics("resolution_time") /\ RowsOf(tickets, out.ds) # <<>>) =>
    LET r == out.ret.result
        times == ResolutionTimes(RowsOf(tickets, out.ds))
    IN  /\ IsFinite(r.avgResolutionTime)
        /\ r.avgResolutionTime.num * Len(times) = SumSeq(times) * r.avgResolutionTime.den
        /\ NumEq(r.fastestResolution, Fin(SetMin(Range(times)), 1))
        /\ NumEq(r.slowestResolution, Fin(SetMax(Range(times)), 1))
        /\ \A i \in 1..Len(times) :
             /\ NumLeq(r.fastestResolution, Fin(times[i], 1))
             /\ NumLeq(Fin(times[i], 1), r.slowestResolution)

\* a dataset whose tickets have different resolution times
C5_Witness ==
  /\ IsAnalytics("resolution_time")
  /\ Len(RowsOf(tickets, out.ds)) >= 2
  /\ ~NumEq(out.ret.result.fastestResolution, out.ret.result.slowestResolution)

\* C6: percentageHigh is the share of ratings >= 4, percentageLow the share
\* of ratings <= 2, both are numbers and their sum is at most 100
C6_HighPlusLowAtMost100 ==
  IsAnalytics("satisfaction") =>
    LET r == out.ret.result
        rows == RowsOf(tickets, out.ds)
        high == Cardinality({i \in 1..Len(rows) : rows[i].satisfactionRate >= 4})
        low  == Cardinality({i \in 1..Len(rows) : rows[i].satisfactionRate <= 2})
    IN  /\ IsFinite(r.percentageHigh)
        /\ IsFinite(r.percentageLow)
        /\ r.percentageHigh.num * Len(rows) = 100 * high * r.percentageHigh.den
        /\ r.percentageLow.num * Len(rows) = 100 * low * r.percentageLow.den
        /\ r.percentageHigh.num * r.percentageLow.den
             + r.percentageLow.num * r.percentageHigh.den
             <= 100 * r.percentageHigh.den * r.percentageLow.den

----------------------------------------------------------------------------
(* End-to-end scenarios: claims C12 and C13, checked under SpecScenario *)

\* C12: over a dataset that has tickets, percentageUnderDay is 100 times the
\* share of tickets whose resolutionTime is strictly below one day; for
\* tickets of half a day, one day and two days the average is 7/6 days and
\* percentageUnderDay is 100/3
C12_PercentageUnderDay ==
  (IsAnalytics("resolution_time") /\ RowsOf(tickets, out.ds) # <<>>) =>
    LET r == out.ret.result
        rows == RowsOf(tickets, out.ds)
        under == Cardinality({i \in 1..Len(rows) : rows[i].resolutionTime < OneDay})
    IN  /\ NumEq(r.percentageUnderDay, Fin(100 * under, Len(rows)))
        /\ (ResolutionTimes(rows) = <<5, 10, 20>>) =>
              /\ NumEq(r.avgResolutionTime, Fin(7 * OneDay, 6))
              /\ NumEq(r.percentageUnderDay, Fin(100, 3))

\* the three-ticket dataset of the scenario, uploaded and then analysed
C12_Witness ==
  /\ IsAnalytics("resolution_time")
  /\ ResolutionTimes(RowsOf(tickets, out.ds)) = <<5, 10, 20>>
  /\ [i \in 1..3 |-> RowsOf(tickets, out.ds)[i].ticketId] = <<"T1", "T2", "T3">>
  /\ NumEq(out.ret.result.percentageUnderDay, Fin(100, 3))

\* the answer to "What's the distribution of issue types?" over the latest
\* dataset, when that dataset has issue type A on 3 tickets and B on 1
IssueTypesScenario ==
  /\ out.op = "chat"
  /\ out.message = IssueTypesQuestion
  /\ out.ds # 0
  /\ LET rows == RowsOf(tickets, out.ds)
     IN  /\ Len(rows) = 4
         /\ Cardinality({i \in 1..Len(rows) : rows[i].issueType = "A"}) = 3
         /\ Cardinality({i \in 1..Len(rows) : rows[i].issueType = "B"}) = 1

\* C13: in that scenario the reply is the issue-distribution analytics
\* payload, it reports top issue A with count 3 and as many categories as
\* the dataset has request categories, and it carries chart type "pie"
C13_IssueTypesQuestion ==
  IssueTypesScenario =>
    LET ui == out.reply.ui
        rows == RowsOf(tickets, out.ds)
    IN  /\ ui.type = "analytics"
        /\ ui.metric = "issue_distribution"
        /\ ui.summaryMetrics[1].value.text = "A"
        /\ ui.summaryMetrics[1].value.num = 3
        /\ NumEq(ui.summaryMetrics[2].value,
                 Fin(Cardinality({rows[i].requestCategory : i \in 1..Len(rows)}), 1))
        /\ "chartType" \in DOMAIN ui
        /\ ui.chartType = "pie"

\* the same statement without the chart type
C13_WithoutChartType ==
  IssueTypesScenario =>
    LET ui == out.reply.ui
        rows == RowsOf(tickets, out.ds)
    IN  /\ ui.type = "analytics"
        /\ ui.metric = "issue_distribution"
        /\ ui.summaryMetrics[1].value.text = "A"
        /\ ui.summaryMetrics[1].value.num = 3
        /\ NumEq(ui.summaryMetrics[2].value,
                 Fin(Cardinality({rows[i].requestCategory : i \in 1..Len(rows)}), 1))

----------------------------------------------------------------------------
(* Report generation: claims C14 and C20, checked under SpecReport *)

UnableContent == "Unable to retrieve data for this metric."

\* the metrics whose callback throws: no query configuration, or the
\* issue-distribution sentence about categories[0] over a dataset without
\* tickets
MetricFails(metric, rows) ==
  \/ metric \notin AnalyticsMetrics
  \/ metric = "issue_distribution" /\ rows = <<>>

ReportReturned ==
  /\ report.pc = "done"
  /\ report.datasetId \in Range(datasets)
  /\ report.reportType # ""
  /\ report.metrics # <<>>

\* C14: generateReport called with an existing dataset, a report type and
\* a non-empty metric list returns a report with one section per requested
\* metric in the requested order; a metric that fails gives the section
\* "Unable to retrieve data for this metric.", and the section of every
\* other metric is the one a report on that metric alone would contain
C14_OneSectionPerMetric ==
  ReportReturned =>
    /\ report.result.type = "report"
    /\ LET secs == report.result.data.sections
           rows == RowsOf(tickets, report.datasetId)
       IN  /\ Len(secs) = Len(report.metrics)
           /\ \A i \in 1..Len(report.metrics) :
                /\ secs[i].title = TitleCase(report.metrics[i])
                /\ MetricFails(report.metrics[i], rows) <=> (secs[i].content = UnableContent)
                /\ ~MetricFails(report.metrics[i], rows) =>
                     \E ord \in OrdersFor(rows, ANALYTICS_QUERIES[report.metrics[i]].metric) :
                       secs[i] = toolGenerateReport(tickets, datasets, report.datasetId,
                                                    report.reportType, <<report.metrics[i]>>,
                                                    ord).data.sections[1]

\* a report whose first metric failed and whose second did not
C14_Witness ==
  /\ ReportReturned
  /\ Len(report.metrics) = 2
  /\ report.result.type = "report"
  /\ report.result.data.sections[1].content = UnableContent
  /\ report.result.data.sections[2].content # UnableContent
  /\ report.result.data.sections[2].figures # <<>>

\* the callback of the i-th metric has returned its section
CallbackReturned(i) == report.sections[i] # Pending

\* C20 as stated: the analytics call for the (k+1)-th metric is not started
\* before the call for the k-th metric has completed
C20_SequentialAwaits ==
  report.pc = "running" =>
    \A k \in 1..(Len(report.metrics) - 1) :
      (k + 1) \in report.started => CallbackReturned(k)

\* C20 amended: while the report is being generated the call of every
\* metric that has a query configuration has been started, whether or not
\* any call has been answered; the answers come in any order and each one
\* fills the section at its metric's position
C20_AllStartedThenAnyOrder ==
  report.pc = "running" =>
    /\ \A i \in 1..Len(report.metrics) :
         report.metrics[i] \in AnalyticsMetrics => i \in report.started
    /\ \A i \in 1..Len(report.metrics) :
         CallbackReturned(i) => report.sections[i].title = TitleCase(report.metrics[i])
    /\ \A n \in 1..Len(report.answered) : CallbackReturned(report.answered[n])

\* the second metric's call was answered while the first was still pending
C20_Witness ==
  /\ report.pc = "running"
  /\ report.answered = <<2>>
  /\ 1 \in report.started
  /\ ~CallbackReturned(1)
  /\ CallbackReturned(2)

----------------------------------------------------------------------------
(* Chat action on a dataset without tickets: claim C7, checked under Spec *)

IsNumber(x) == x.kind \notin {"NaN", "Inf", "-Inf"}

AllNumbers(xs) == \A i \in 1..Len(xs) : IsNumber(xs[i])

\* a payload all of whose numeric fields are numbers
WellDefinedResult(ui) ==
  \/ /\ ui.type = "analytics"
     /\ \A i \in 1..Len(ui.summaryMetrics) : IsNumber(ui.summaryMetrics[i].value)
     /\ AllNumbers(ui.insights)
  \/ /\ ui.type = "data-visualization"
     /\ AllNumbers(ui.data.figures)

\* the error payloads of actions.tsx that say that there is nothing to analyse
NoDataMessages == {NoDatasetsMessage}

NoDataError(ui) == ui.type = "error" /\ ui.message \in NoDataMessages

\* a chat request that ran an analytics function on a dataset without tickets
AnalyticsOnEmptyDataset ==
  /\ out.op = "chat"
  /\ out.ds # 0
  /\ RowsOf(tickets, out.ds) = <<>>
  /\ out.message # <<>>
  /\ detectIntent(out.message).intent \in {"show_analytics", "analyze_data"}

\* C7: on a dataset with zero tickets every analytics path answers with a
\* well-defined result (no NaN or Infinity field) or an explicit "no data"
\* error.  (sendMessage has a catch-all, so no exception leaves it.)
C7_EmptyDatasetWellDefined ==
  AnalyticsOnEmptyDataset =>
    (WellDefinedResult(out.reply.ui) \/ NoDataError(out.reply.ui))

----------------------------------------------------------------------------
(* Error handling of the chat action: claim C15, checked under Spec *)

\* a chat request in which an error was raised below sendMessage: the
\* database could not be reached by a request that queries it, or the
\* free-form analysis ran on a dataset without tickets and read a field of
\* its missing first group
ErrorRaised ==
  /\ out.op = "chat"
  /\ \/ out.db = "down" /\ detectIntent(out.message).intent # "upload_dataset"
     \/ out.reply.caught
     \/ /\ out.db = "up"
        /\ out.ds # 0
        /\ RowsOf(tickets, out.ds) = <<>>
        /\ out.message = Word.Hello

----------------------------------------------------------------------------
(* Ticket trends: claim C21, checked under Spec *)

\* the period a ticket date belongs to: its day or week when that is what
\* groupBy asks for, otherwise (absent or unrecognised groupBy) its month
ExpectedPeriod(d, groupBy) ==
  IF groupBy = "day" THEN DateKey(d)
  ELSE IF groupBy = "week" THEN WeekKey(d)
  ELSE MonthKey(d)

\* every ticket is in exactly one bucket, the bucket counts sum to
\* totalTickets, and the data is in strictly ascending order of period
TrendBuckets ==
  LET r == out.ret.result
      rows == RowsOf(tickets, out.ds)
  IN  /\ r.totalTickets = Len(rows)
      /\ SumCounts(r.data) = r.totalTickets
      /\ \A i \in 1..Len(rows) :
           Cardinality({k \in 1..Len(r.data) :
                          r.data[k].period = ExpectedPeriod(rows[i].date, out.groupBy)}) = 1
      /\ \A k \in 1..Len(r.data) :
           r.data[k].count =
             Cardinality({i \in 1..Len(rows) :
                            ExpectedPeriod(rows[i].date, out.groupBy) = r.data[k].period})
      /\ \A k \in 1..(Len(r.data) - 1) : r.data[k].period < r.data[k + 1].period

\* maxTicketsInPeriod is the count of a bucket that no bucket exceeds, and
\* avgTicketsPerPeriod is totalTickets divided by the number of buckets
TrendStatistics ==
  LET r == out.ret.result
  IN  /\ \E k \in 1..Len(r.data) : NumEq(r.maxTicketsInPeriod, Fin(r.data[k].count, 1))
      /\ \A k \in 1..Len(r.data) : NumLeq(Fin(r.data[k].count, 1), r.maxTicketsInPeriod)
      /\ NumEq(r.avgTicketsPerPeriod, Fin(r.totalTickets, Len(r.data)))

\* C21: for any dataset and groupBy, every ticket is in exactly one period
\* bucket and the bucket counts sum to totalTickets; maxTicketsInPeriod is
\* the largest bucket count, avgTicketsPerPeriod is totalTickets divided by
\* the number of buckets, the data is sorted ascending by period, and an
\* absent or unrecognised groupBy buckets by month
C21_TrendBuckets ==
  IsAnalytics("ticket_count") => (TrendBuckets /\ TrendStatistics)

\* the same statement restricted to datasets that have tickets
C21_WithTickets ==
  (IsAnalytics("ticket_count") /\ RowsOf(tickets, out.ds) # <<>>) =>
    (TrendBuckets /\ TrendStatistics)

\* the bucketing alone, for every dataset
C21_BucketsAlone == IsAnalytics("ticket_count") => TrendBuckets

\* two tickets of two months bucketed under an unrecognised groupBy
C21_TwoMonths ==
  /\ IsAnalytics("ticket_count")
  /\ out.groupBy = "quarter"
  /\ Len(out.ret.result.data) = 2

----------------------------------------------------------------------------
(* Issue distribution: claim C22, checked under Spec *)

\* C22: for a dataset that has tickets, topIssue is an entry of
\* issueDistribution that no entry exceeds in count and, among the entries
\* of that count, the one that comes first in the query result; categories
\* is in non-increasing order of count; for a dataset without tickets
\* topIssue is {type: 'None', count: 0}
C22_TopIssueFirstOfTies ==
  IsAnalytics("issue_distribution") =>
    LET r == out.ret.result
        dist == r.issueDistribution
    IN  /\ RowsOf(tickets, out.ds) # <<>> =>
             \E k \in 1..Len(dist) :
               /\ r.topIssue = dist[k]
               /\ \A j \in 1..Len(dist) : dist[j].count <= dist[k].count
               /\ \A j \in 1..(k - 1) : dist[j].count < dist[k].count
        /\ RowsOf(tickets, out.ds) = <<>> => r.topIssue = [type |-> "None", count |-> 0]
        /\ \A k \in 1..(Len(r.categories) - 1) :
             r.categories[k].count >= r.categories[k + 1].count

\* two issue types with the same count, returned by the query with "B" first
C22_Witness ==
  /\ IsAnalytics("issue_distribution")
  /\ Len(out.ret.result.issueDistribution) = 2
  /\ out.ret.result.issueDistribution[1].count = out.ret.result.issueDistribution[2].count
  /\ out.ret.result.issueDistribution[1].type = "B"
  /\ out.ret.result.topIssue.type = "B"

----------------------------------------------------------------------------
(* Date parsing: claim C24, checked under SpecParseDate *)

IsCalendarDate(date) ==
  /\ date.m \in 1..12
  /\ date.d \in 1..DaysInMonth(date.y, date.m)

\* a cell D/M/YYYY whose D and M name a day of the calendar
IsValidDMY(cell) ==
  /\ cell.fmt = "dmy"
  /\ cell.m \in 1..12
  /\ cell.d \in 1..DaysInMonth(cell.y, cell.m)

\* C24: parseDate returns a valid calendar date or throws, also for strings
\* D/M/YYYY whose day or month is out of range; for a valid D/M/YYYY the
\* first number is the day and the second the month of the date returned
C24_ValidDateOrThrows ==
  out.op = "parseDate" =>
    /\ out.ret.threw \/ IsCalendarDate(out.ret.date)
    /\ IsValidDMY(out.cell) =>
         /\ ~out.ret.threw
         /\ out.ret.date = [y |-> out.cell.y, m |-> out.cell.m, d |-> out.cell.d]

\* the same statement without the strings D/M/YYYY that name no calendar
\* date and no day 1..31 of a month 1..12
C24_InRangeCells ==
  (out.op = "parseDate"
     /\ (out.cell.fmt = "dmy" => (out.cell.m \in 1..12 /\ out.cell.d \in 1..31))) =>
    /\ out.ret.threw \/ IsCalendarDate(out.ret.date)
    /\ IsValidDMY(out.cell) =>
         /\ ~out.ret.threw
         /\ out.ret.date = [y |-> out.cell.y, m |-> out.cell.m, d |-> out.cell.d]

\* parseDate has returned an Invalid Date for 45/13/2024
C24_InvalidDateReturned ==
  /\ out.op = "parseDate"
  /\ out.cell = DMY(45, 13, 2024)
  /\ ~out.ret.threw
  /\ out.ret.date = InvalidDate

----------------------------------------------------------------------------
(* Rows without ticket id: claim C23, checked under Spec *)

\* the rows of a file that carry a ticket id
RowsWithId(file) == SelectSeq(file, LAMBDA row : row.idTicket # "")

\* a row whose date cell makes parseDate throw or is no point in time
CannotBeProcessed(row) ==
  parseDate(row.date).threw \/ parseDate(row.date).date = InvalidDate

\* the step of a request that answers it after the rows were mapped
UploadAnswered == upload.pc = "created" /\ upload'.pc = "idle"

\* C23: a row without 'ID Ticket' value is dropped and does not fail the
\* upload; every other row of the file is mapped to a ticket of the new
\* dataset; the upload fails only when no row remains or a remaining row
\* cannot be processed
C23_RowsWithoutIdDropped ==
  [][ UploadAnswered =>
        LET kept == RowsWithId(upload.file)
            stored == RowsOf(tickets', upload.ds)
        IN  /\ out'.status \in {200, 500}
            /\ out'.status = 500 <=>
                 (kept = <<>> \/ \E i \in 1..Len(kept) : CannotBeProcessed(kept[i]))
            /\ out'.status = 200 =>
                 /\ out'.ticketCount = Len(kept)
                 /\ \A i \in 1..Len(kept) :
                      \E k \in 1..Len(stored) : stored[k].ticketId = kept[i].idTicket
                 /\ \A k \in 1..Len(stored) :
                      /\ stored[k].ticketId # ""
                      /\ \E i \in 1..Len(kept) : stored[k] = MapRow(kept[i], upload.ds) ]_vars

\* an upload that succeeded although one of the two rows of its file had no
\* ticket id
C23_Witness ==
  /\ out.op = "upload"
  /\ out.status = 200
  /\ out.rows = 2
  /\ out.ticketCount = 1
  /\ Len(RowsOf(tickets, out.ds)) = 1

----------------------------------------------------------------------------
(* Chart type of a visualisation: claim C25, checked under SpecVisualize *)

\* analyzeDataByQuery has returned a result to the visualisation tool
Analyzed ==
  /\ out.op = "visualize"
  /\ out.ds # 0
  /\ out.query # <<>>
  /\ ~out.ret.threw

\* C25: analyzeDataByQuery returns the caller's chart type whenever one
\* other than 'auto' is passed; the chartType of a data-visualization
\* payload is one of bar, line, pie, table
C25_CallerChartTypeWins ==
  /\ (Analyzed /\ out.chartType \notin {"", "auto"}) => out.ret.chartType = out.chartType
  /\ (out.op = "visualize" /\ out.ui.type = "data-visualization") =>
       out.ui.data.chartType \in ValidChartTypes

\* the chart type returned is one that a branch of analyzeDataByQuery
\* assigns, also when the caller passed another one, and the payload's
\* chart type is valid
C25_BranchChartType ==
  /\ Analyzed => out.ret.chartType \in {"bar", "line", "pie"}
  /\ (out.op = "visualize" /\ out.ui.type = "data-visualization") =>
       out.ui.data.chartType \in ValidChartTypes

\* a table was asked for and a bar chart returned
C25_TableIgnored ==
  /\ Analyzed
  /\ out.chartType = "table"
  /\ out.ret.chartType = "bar"
  /\ out.ui.type = "data-visualization"

----------------------------------------------------------------------------
(* Chat history: claim C26, checked under SpecChat *)

CompletedCalls == {c \in 1..MaxCalls : chat.calls[c].pc = "done"}

\* both lists hold one user/assistant pair per completed call, and the
\* pair of every completed call is in the UI list
HistoryComplete ==
  LET n == Cardinality(CompletedCalls)
  IN  /\ Len(chat.messages) = 2 * n
      /\ Len(chat.uiMessages) = 2 * n
      /\ \A k \in 1..n :
           /\ chat.messages[2 * k - 1].role = "user"
           /\ chat.messages[2 * k].role = "assistant"
           /\ chat.uiMessages[2 * k - 1].role = "user"
           /\ chat.uiMessages[2 * k].role = "assistant"
           /\ chat.messages[2 * k - 1].content = chat.uiMessages[2 * k - 1].content
      /\ \A c \in CompletedCalls :
           \E k \in 1..n :
             /\ chat.uiMessages[2 * k - 1] = userUIMessage(c, chat.calls[c].message)
             /\ chat.uiMessages[2 * k].id = 2 * c

\* C26: after n completed sendMessage calls on one session, overlapping or
\* not, both message lists hold 2n messages in user/assistant pairs and no
\* message of an earlier or concurrent call is lost
C26_HistoryKeepsEveryCall == HistoryComplete

\* the same statement for sessions whose calls never overlapped
C26_WithoutOverlap == ~chat.overlapped => HistoryComplete

\* three calls completed one after the other
C26_ThreeInARow ==
  /\ ~chat.overlapped
  /\ Cardinality(CompletedCalls) = 3
  /\ Len(chat.uiMessages) = 6

\* two overlapping calls completed and the lists hold one pair
C26_LostUpdate ==
  /\ Cardinality(CompletedCalls) = 2
  /\ Len(chat.messages) = 2
  /\ Len(chat.uiMessages) = 2

----------------------------------------------------------------------------
(* Totality of the router: claim C27, checked under SpecIntent *)

\* the cases of the switch in handleUserMessage
HandledIntents ==
  {"upload_dataset", "list_datasets", "show_analytics", "generate_report", "analyze_data"}

\* C27: for every message detectIntent returns one of the five intents of
\* the switch in handleUserMessage, so handleUserMessage does not return
\* undefined and sendMessage does not reach its LLM streaming branch,
\* whether the database answers or not
C27_EveryIntentHandled ==
  Classified =>
    /\ intent.intent \in HandledIntents
    /\ handleUserMessage(tickets, datasets, msg, NoOrders) # Undefined
    /\ sendMessage(tickets, datasets, msg, NoOrders) # StreamedReply
    /\ sendMessageDbDown(msg) # StreamedReply

\* a message that no rule matches, answered on the tool-response path
C27_Witness ==
  /\ Classified
  /\ msg = Word.Hello
  /\ intent.intent = "analyze_data"
  /\ sendMessage(tickets, datasets, msg, NoOrders).ui.type = "error"

----------------------------------------------------------------------------
(* Messages of the dataset analysis page: claim C28, checked under SpecPage *)

\* C28: two requests of the dataset analysis page with the same text are
\* routed to the same intent, whatever the names and ids of their datasets
C28_IntentDependsOnTextOnly ==
  out.op = "page" => out.first.intent.intent = out.second.intent.intent

\* two requests whose datasets have the same name are routed alike,
\* whatever their ids
C28_SameName ==
  (out.op = "page" /\ out.first.name = out.second.name) =>
    out.first.intent.intent = out.second.intent.intent

\* the text "Hello" routed to analyze_data for a dataset called "Hello" and
\* to list_datasets for a dataset called "list"
C28_NameDecides ==
  /\ out.op = "page"
  /\ out.text = Word.Hello
  /\ out.first.name = Word.Hello
  /\ out.first.intent.intent = "analyze_data"
  /\ out.second.name = Word.list
  /\ out.second.intent.intent = "list_datasets"

----------------------------------------------------------------------------
(* The dataset a chat request analyses: claim C29, checked under Spec *)

DatasetIntents == {"show_analytics", "generate_report", "analyze_data"}

\* the step of a chat request that could reach the database and whose
\* intent queries a dataset, taken while datasets are stored
AnalysingRequest ==
  /\ out' # out
  /\ out'.op = "chat"
  /\ out'.db = "up"
  /\ datasets # <<>>
  /\ detectIntent(out'.message).intent \in DatasetIntents

----------------------------------------------------------------------------
(* Metric and tool names: claim C30, checked under SpecIntent *)

\* the metrics of an intent: the one of show_analytics, those of a report
EmittedMetrics(it) ==
  IF it.intent = "show_analytics" THEN {it.metric}
  ELSE IF it.intent = "generate_report" THEN Range(it.metrics)
  ELSE {}

\* a store with one dataset of two tickets, over which the routed request
\* is answered
RoutingStore == createMany(<<>>, MapRows(<<RawRow("T1", DMY(1, 2, 2024),  "G1", "A", "X", 5, 5),
                                           RawRow("T2", DMY(15, 3, 2024), "G2", "B", "Y", 20, 1)>>,
                                         1).tickets)

NameErrors ==
  {"Failed to fetch analytics: Invalid metric",
   "Failed to fetch analytics: No query configuration found",
   "Failed to fetch analytics: Unsupported metric",
   "Unknown tool"}

\* C30: every metric detectIntent emits passes the validMetrics check, has
\* an ANALYTICS_QUERIES entry and maps to a backend metric getTicketAnalytics
\* accepts, and every tool handleUserMessage names has a case; so no routed
\* request ends in 'Invalid metric', 'No query configuration found',
\* 'Unsupported metric' or 'Unknown tool', neither as the reply nor inside
\* a report section
C30_NamesAgree ==
  Classified =>
    /\ \A m \in EmittedMetrics(intent) :
         /\ m \in AnalyticsMetrics
         /\ m \in DOMAIN ANALYTICS_QUERIES
         /\ ANALYTICS_QUERIES[m].metric \in BackendMetrics
         /\ ~getTicketAnalytics(RoutingStore, 1, ANALYTICS_QUERIES[m].metric,
                                ANALYTICS_QUERIES[m].groupBy, NoOrders).threw
    /\ ToolOf(intent.intent) # "" =>
         handleToolExecution(ToolOf(intent.intent), ToolArgs("", 0, "", <<>>), <<>>, <<>>, NoOrders)
           # ErrorUI("Unknown tool")
    /\ \A ord \in ChatOrders(RoutingStore, <<1>>, msg) :
         LET ui == sendMessage(RoutingStore, <<1>>, msg, ord).ui
         IN  /\ ui.type = "error" => ui.message \notin NameErrors
             /\ ui.type = "report" =>
                  \A i \in 1..Len(ui.data.sections) :
                    ui.data.sections[i] # UnableSection(intent.metrics[i])

\* a request for ticket trends, whose frontend metric ticket_trends is
\* answered by the backend metric ticket_count
C30_Witness ==
  /\ Classified
  /\ intent.intent = "show_analytics"
  /\ intent.metric = "ticket_trends"
  /\ ANALYTICS_QUERIES[intent.metric].metric = "ticket_count"
  /\ \A ord \in ChatOrders(RoutingStore, <<1>>, msg) :
       sendMessage(RoutingStore, <<1>>, msg, ord).ui.type = "analytics"

====
